---- MODULE Spec2Model ----
(***************************************************************************)
(* Retrieval and risk-analysis core of the contract platform:             *)
(*   - the three-stage chain analysis of rag_pipeline.py                   *)
(*     (_chain1_identify_violations, _chain2_search_related_laws,          *)
(*      _chain3_detailed_analysis, step3_contract_review_test);            *)
(*   - the tolerant JSON extraction both LLM stages share;                 *)
(*   - the hybrid vector search of documents/repository.py;                *)
(*   - the hierarchical chunker of documents/chunking.py, the embedding of *)
(*     its chunks (aws/embedding_service.py) and their persistence;        *)
(*   - the clause splitters of rag_pipeline.py;                            *)
(*   - the related-clause lookup of _perform_contract_review;              *)
(*   - soft delete, restore and the version labels of uploaded contracts   *)
(*     (documents/repository.py, documents/base_service.py).               *)
(*                                                                         *)
(* The specifications share the variables:                                 *)
(*   Spec           one run of step3_contract_review_test                  *)
(*   SpecParse      the stage-1 / stage-3 reply handling of one reply      *)
(*   SpecHybrid     search_documents_hybrid over a small chunk store       *)
(*   SpecSegment    one text segmented or split into clauses               *)
(*   SpecResegment  texts segmented one after the other by one chunker     *)
(*   SpecEmbed      one chunk list embedded and persisted                  *)
(*   SpecIngest     documents ingested into one chunk store                *)
(*   SpecDelete     vector searches over a store with soft-deleted rows    *)
(*   SpecReview     the related clauses of one section under review        *)
(*   SpecVersion    contract uploads, soft deletes and restores in a room  *)
(***************************************************************************)
EXTENDS Integers, Sequences, FiniteSets, TLC

(***************************************************************************)
(* Bounds of the model.                                                    *)
(***************************************************************************)
\* longest LLM reply, in tokens, that SpecParse enumerates
MaxLen == 4
\* longest violations array a stage-1 reply carries
MaxCands == 2
\* most parent chunks of the analysed contract
MaxClauses == 2
\* most chunk rows in the store of SpecHybrid
MaxRows == 3
\* largest top_k a hybrid search is called with
MaxTopK == 2
\* longest text, in lines, that SpecSegment enumerates
MaxLines == 4
\* longest list of vector-ready chunks that SpecEmbed enumerates
MaxChunks == 3
\* most segmentations in a row of SpecResegment
MaxSegs == 3
\* most documents ingested into the chunk store of SpecIngest
MaxDocs == 2
\* most sections of a reviewed contract
MaxSections == 4
\* most contracts uploaded into the room
MaxUploads == 3

(***************************************************************************)
(* Generic helpers.                                                        *)
(***************************************************************************)
Min(a, b) == IF a <= b THEN a ELSE b

Range(s) == {s[i] : i \in 1..Len(s)}

SeqsUpTo(S, n) == UNION {[1..k -> S] : k \in 0..n}

\* dict.get(key, default)
Get(d, k, default) == IF k \in DOMAIN d THEN d[k] ELSE default

(***************************************************************************)
(* LLM reply text.  A reply is a sequence of tokens:                       *)
(*   "prose"  free text holding no backtick and no brace, not JSON         *)
(*   "ws"     a run of whitespace                                          *)
(*   "open"   the characters ```json                                       *)
(*   "close"  the characters ```                                           *)
(*   "obj"    the text of one well-formed JSON object {...}                *)
(*   "bad"    a brace-delimited text {...} that is not well-formed JSON    *)
(*   "arr"    a well-formed JSON value that is not an object, e.g. [...]   *)
(***************************************************************************)
Tokens == {"prose", "ws", "open", "close", "obj", "bad", "arr"}

Texts == SeqsUpTo(Tokens, MaxLen)

\* tokens whose text starts with { and ends with }
BraceTokens == {"obj", "bad"}

\* tokens whose text starts with the three backticks the pattern ends with
FenceTokens == {"close", "open"}

AllWs(t, a, b) == \A x \in a..b : t[x] = "ws"

\* positions k >= j where \{.*?\} can end: a closing brace followed by \s*```
GroupEnds(t, j) ==
  {k \in j..Len(t) :
     /\ t[k] \in BraceTokens
     /\ \E m \in (k+1)..Len(t) : t[m] \in FenceTokens /\ AllWs(t, k+1, m-1)}

\* GroupStarts for the pattern ```json(\{.*?\})\s*```: no whitespace allowed
\* between the fence and the brace
GroupStartsNoWs(t, i) ==
  {j \in (i+1)..Len(t) : j = i + 1 /\ t[j] \in BraceTokens}

\* positions j where the group can start for a match that begins at token i
GroupStarts(t, i) ==
  {j \in (i+1)..Len(t) : t[j] \in BraceTokens /\ AllWs(t, i+1, j-1)}

\* the pattern ```json\s*(\{.*?\})\s*``` matches starting at token i
MatchesAt(t, i) ==
  /\ t[i] = "open"
  /\ \E j \in GroupStarts(t, i) : GroupEnds(t, j) # {}

SetMin(S) == CHOOSE x \in S : \A y \in S : x <= y

\* re.search(r'```json\s*(\{.*?\})\s*```', response_text, re.DOTALL):
\* leftmost start, lazy group; found = FALSE is the None result
JsonMatch(t) ==
  LET starts == {i \in 1..Len(t) : MatchesAt(t, i)}
  IN  IF starts = {}
        THEN [found |-> FALSE, group |-> <<>>]
        ELSE LET i == SetMin(starts)
                 j == SetMin(GroupStarts(t, i))
                 k == SetMin(GroupEnds(t, j))
             IN  [found |-> TRUE, group |-> SubSeq(t, j, k)]

\* str.strip(): leading and trailing whitespace removed
RECURSIVE StripLeft(_)
StripLeft(t) ==
  IF t # <<>> /\ Head(t) = "ws" THEN StripLeft(Tail(t)) ELSE t

RECURSIVE StripRight(_)
StripRight(t) ==
  IF t # <<>> /\ t[Len(t)] = "ws" THEN StripRight(SubSeq(t, 1, Len(t) - 1)) ELSE t

Strip(t) == StripRight(StripLeft(t))

\* the json_str handed to json.loads: the fenced group, else the stripped reply
ExtractJson(response_text) ==
  LET json_match == JsonMatch(response_text)
  IN  IF json_match.found THEN json_match.group ELSE Strip(response_text)

\* json.loads(json_str): "object" a dict, "value" another JSON value,
\* "error" a JSONDecodeError
JsonLoads(json_str) ==
  LET s == Strip(json_str)
  IN  IF s = <<"obj">> THEN "object"
      ELSE IF s = <<"arr">> THEN "value"
      ELSE "error"

(***************************************************************************)
(* Stage-1 data.  A clause locator is a string of tokens: "je" and "jo"    *)
(* are the two characters of the native numbering idiom that the pattern   *)
(* of line 891 looks for, "0".."9" are digits, "x" is any other text.      *)
(* A dict is a record; a JSON value that is no dict has the field scalar.  *)
(***************************************************************************)
Digits == {"0", "1", "2", "3", "4", "5", "6", "7", "8", "9"}

DigitVal(d) ==
  CASE d = "0" -> 0 [] d = "1" -> 1 [] d = "2" -> 2 [] d = "3" -> 3
    [] d = "4" -> 4 [] d = "5" -> 5 [] d = "6" -> 6 [] d = "7" -> 7
    [] d = "8" -> 8 [] d = "9" -> 9

\* int() of the digit string s[a..b]
RECURSIVE IntOf(_, _, _)
IntOf(s, a, b) ==
  IF b < a THEN 0 ELSE IntOf(s, a, b - 1) * 10 + DigitVal(s[b])

\* where the pattern je(\d+)jo matches in s: <<i, k>> with s[i] = "je",
\* s[i+1..k-1] digits (at least one), s[k] = "jo"
ClauseMatches(s) ==
  {m \in (1..Len(s)) \X (1..Len(s)) :
     /\ s[m[1]] = "je"
     /\ m[2] >= m[1] + 2
     /\ s[m[2]] = "jo"
     /\ \A x \in (m[1]+1)..(m[2]-1) : s[x] \in Digits}

\* lines 891-895: the chunk_index of a clause locator
ChunkIndexOf(clause_num) ==
  LET ms == ClauseMatches(clause_num)
  IN  IF ms = {} THEN 0
      ELSE LET m == CHOOSE x \in ms : \A y \in ms : x[1] <= y[1]
           IN  IntOf(clause_num, m[1] + 1, m[2] - 1) - 1

IsDict(v) == "scalar" \notin DOMAIN v

\* a candidate as the model is asked to return it (lines 822-828)
CandA ==
  [clause_number |-> <<"je", "3", "jo">>, clause_title |-> <<"title_a">>,
   risk_type |-> "risk_a", risk_level |-> "high", brief_reason |-> "reason_a"]

\* a candidate whose locator holds no clause number and that has no title
CandB ==
  [clause_number |-> <<"x", "2">>, risk_type |-> "risk_b",
   brief_reason |-> "reason_b"]

\* the JSON value null where the locator string is expected: the one token
\* that is no text
NullLocator == <<"null">>

\* a candidate the model could not locate: "clause_number": null
CandNull ==
  [clause_number |-> NullLocator, risk_type |-> "risk_c",
   brief_reason |-> "reason_c"]

\* an entry of the violations array that is a string, not an object
NotADict == [scalar |-> "str"]

Entries == {CandA, CandB, CandNull, NotADict}

\* the decoded JSON object of a stage-1 reply: the violations key is absent,
\* null, or a list of entries
Stage1Objects ==
  {[vtype |-> "absent", violations |-> <<>>],
   [vtype |-> "null", violations |-> <<>>]}
  \cup {[vtype |-> "list", violations |-> l] : l \in SeqsUpTo(Entries, MaxCands)}

\* {"violations_found": false, "total_violations": 0, "violations": []}
NoViolationsObject == [vtype |-> "list", violations |-> <<>>]

\* lines 887-895: the entry with its chunk_index added
WithChunkIndex(violation) ==
  [k \in DOMAIN violation \cup {"chunk_index"} |->
     IF k = "chunk_index"
       THEN ChunkIndexOf(Get(violation, "clause_number", <<>>))
       ELSE violation[k]]

\* lines 869-907, after the LLM call returned response_text whose JSON
\* object, if it holds one, decodes to result
Chain1Parse(response_text, result) ==
  LET loaded == JsonLoads(ExtractJson(response_text))
  IN  IF loaded = "error" THEN <<>>                \* JSONDecodeError, line 900
      ELSE IF loaded = "value" THEN <<>>           \* no .get: line 905
      ELSE IF result.vtype = "absent" THEN <<>>    \* .get default, line 884
      ELSE IF result.vtype = "null" THEN <<>>      \* iterating None: line 905
      ELSE IF \E i \in 1..Len(result.violations) : ~IsDict(result.violations[i])
        THEN <<>>                                  \* no .get: line 905
      ELSE IF \E i \in 1..Len(result.violations) :
                Get(result.violations[i], "clause_number", <<>>) = NullLocator
        THEN <<>>                  \* re.search(None): TypeError, line 905
      ELSE [i \in 1..Len(result.violations) |->
              WithChunkIndex(result.violations[i])]

\* a parent chunk row as _get_parent_chunks_from_db returns it; header_1
\* is a column that may be NULL
ChunkRows == {[header_1 |-> "text"], [header_1 |-> "null"]}

\* lines 753-765: title.startswith raises when header_1 is None
PromptRaises(all_chunks) ==
  \E i \in 1..Len(all_chunks) : all_chunks[i].header_1 = "null"

\* an LLM call: it raises (bedrock_service.py:123) or returns a text
LlmRaise == [raised |-> TRUE, text |-> <<>>]

LlmText(t) == [raised |-> FALSE, text |-> t]

\* Chain1Identify without the handler of line 905: the LLM error gets out
Chain1IdentifyNoCatch(all_chunks, llm, result) ==
  IF PromptRaises(all_chunks) THEN [raised |-> FALSE, value |-> <<>>]
  ELSE IF llm.raised THEN [raised |-> TRUE, value |-> <<>>]
  ELSE [raised |-> FALSE, value |-> Chain1Parse(llm.text, result)]

\* _chain1_identify_violations, lines 749-907: never raises
Chain1Identify(all_chunks, llm, result) ==
  IF PromptRaises(all_chunks) THEN [raised |-> FALSE, value |-> <<>>]
  ELSE IF llm.raised THEN [raised |-> FALSE, value |-> <<>>]
  ELSE [raised |-> FALSE, value |-> Chain1Parse(llm.text, result)]

(***************************************************************************)
(* Stage-2 data: the rows an evidence search returns.  A filename is a     *)
(* string of tokens, ".pdf" being one of them.                             *)
(***************************************************************************)
Law1 == [chunk_id |-> 1, filename |-> <<"civil_act", ".pdf">>]

Law2 == [chunk_id |-> 2, filename |-> <<"commerce_act">>]

Law3 == [chunk_id |-> 3, filename |-> <<"a", ".pdf", "b", ".pdf">>]

\* the result lists a law search is let to return (top_k = 3, line 939)
LawResultLists ==
  {<<>>, <<Law1>>, <<Law2, Law1>>, <<Law1, Law2, Law3>>, <<Law3, Law1, Law2>>}

\* what happens inside search_documents_direct during a run: the embedding
\* or database step raises, or the query returns no row or three rows
SearchOutcomes ==
  {[failed |-> TRUE, rows |-> <<>>], [failed |-> FALSE, rows |-> <<>>],
   [failed |-> FALSE, rows |-> <<Law1, Law2, Law3>>]}

\* ExternalServiceClient.search_documents_direct, lines 125-207: every
\* exception is turned into an empty result carrying the error
SearchDocumentsDirect(outcome) ==
  IF outcome.failed
    THEN [results |-> <<>>, total_found |-> 0, error |-> TRUE]
    ELSE [results |-> outcome.rows, total_found |-> Len(outcome.rows),
          error |-> FALSE]

\* the copy of a candidate with its evidence, lines 943-945 and 952-954
WithLaws(violation, laws) ==
  [k \in DOMAIN violation \cup {"related_laws", "laws_found"} |->
     IF k = "related_laws" THEN laws
     ELSE IF k = "laws_found" THEN Len(laws)
     ELSE violation[k]]

\* SearchLawsForViolation letting a failed search raise into gather
SearchLawsForViolationNoCatch(violation, outcome) ==
  IF outcome.failed
    THEN [raised |-> TRUE, value |-> violation]
    ELSE [raised |-> FALSE, value |-> WithLaws(violation, outcome.rows)]

\* _search_laws_for_violation, lines 933-955
SearchLawsForViolation(violation, outcome) ==
  LET legal_docs == SearchDocumentsDirect(outcome)
  IN  [raised |-> FALSE, value |-> WithLaws(violation, legal_docs.results)]

\* lines 924-928: gather's results in task order, exceptions left out
RECURSIVE GatherResults(_)
GatherResults(results) ==
  IF results = <<>> THEN <<>>
  ELSE IF Head(results).raised THEN GatherResults(Tail(results))
  ELSE <<Head(results).value>> \o GatherResults(Tail(results))

(***************************************************************************)
(* Stage-3 data.  The five keys of a verdict are written in Latin letters: *)
(* johang_wichi (location), risk_yuhyeong (risk type), pandan_geungeo      *)
(* (justification), uigyeon (recommendation), gwallyeon_beopryeong (cited  *)
(* laws).                                                                  *)
(***************************************************************************)
\* a verdict object as the prompt asks for it (lines 1004-1010)
VerdictFull ==
  [johang_wichi |-> <<"loc">>, risk_yuhyeong |-> "risk_llm",
   pandan_geungeo |-> "basis_llm", uigyeon |-> "opinion_llm",
   gwallyeon_beopryeong |-> <<<<"law_llm">>>>]

\* a JSON object that lacks most of the keys
VerdictPartial == [johang_wichi |-> <<"loc">>]

Stage3Objects == {VerdictFull, VerdictPartial}

\* the decoded value of a reply that is JSON but no object
NonObjectValue == [scalar |-> "arr"]

\* str.replace('.pdf', '')
StripPdf(filename) == SelectSeq(filename, LAMBDA tok : tok # ".pdf")

\* the text of line 1055
FallbackOpinion == "basic_info_only"

\* FallbackVerdict citing every evidence item instead of the first two
FallbackVerdictAllLaws(violation_data) ==
  LET clause_title == Get(violation_data, "clause_title", <<>>)
      clause_number == Get(violation_data, "clause_number", <<>>)
      related_laws == Get(violation_data, "related_laws", <<>>)
  IN  [johang_wichi |-> clause_number \o <<" ", "(">> \o clause_title \o <<")">>,
       risk_yuhyeong |-> Get(violation_data, "risk_type", ""),
       pandan_geungeo |-> Get(violation_data, "brief_reason", ""),
       uigyeon |-> FallbackOpinion,
       gwallyeon_beopryeong |->
         [i \in 1..Len(related_laws) |->
            StripPdf(Get(related_laws[i], "filename", <<>>))]]

\* lines 1051-1057: the verdict substituted when the reply does not parse
FallbackVerdict(violation_data) ==
  LET clause_title == Get(violation_data, "clause_title", <<>>)
      clause_number == Get(violation_data, "clause_number", <<>>)
      related_laws == Get(violation_data, "related_laws", <<>>)
      cited == SubSeq(related_laws, 1, Min(2, Len(related_laws)))
  IN  [johang_wichi |-> clause_number \o <<" ", "(">> \o clause_title \o <<")">>,
       risk_yuhyeong |-> Get(violation_data, "risk_type", ""),
       pandan_geungeo |-> Get(violation_data, "brief_reason", ""),
       uigyeon |-> FallbackOpinion,
       gwallyeon_beopryeong |->
         [i \in 1..Len(cited) |-> StripPdf(Get(cited[i], "filename", <<>>))]]

\* lines 1036-1057, after the LLM call returned response_text whose JSON
\* object, if it holds one, decodes to detailed_analysis: what is appended
Chain3Parse(violation_data, response_text, detailed_analysis) ==
  LET loaded == JsonLoads(ExtractJson(response_text))
  IN  IF loaded = "object" THEN <<detailed_analysis>>
      ELSE IF loaded = "value" THEN <<NonObjectValue>>
      ELSE <<FallbackVerdict(violation_data)>>

\* one round of the loop of lines 965-1061: the entries appended to
\* final_violations for this candidate (none when the LLM call raised and
\* line 1061 went on to the next candidate)
Chain3Round(violation_data, llm, detailed_analysis) ==
  IF llm.raised THEN <<>>
  ELSE Chain3Parse(violation_data, llm.text, detailed_analysis)

\* lines 1063-1071: the report of stage 3
Chain3Report(final_violations) ==
  [has_summary |-> TRUE, total_violations |-> Len(final_violations),
   violations |-> final_violations]

\* the report {"violations": []} of lines 961, 1075 and 1917
EmptyReport == [has_summary |-> FALSE, total_violations |-> 0, violations |-> <<>>]

(***************************************************************************)
(* The chunk store and the vector searches of documents/repository.py.     *)
(* A row is a chunk joined with its document: room_id 0 stands for NULL    *)
(* (a global document); similarity_score is the row's similarity to the    *)
(* query embedding of the call, already rounded, in units that make the    *)
(* weights 0.6 and 0.4 the integers 6 and 4.                               *)
(***************************************************************************)
NoRoom == 0

Rooms == {NoRoom, 1}

DocTypes == {"law", "contract"}

Sims == {2, 3}

\* the doc_types arguments tried: no filter, or law only
DocTypeArgs == {{}, {"law"}}

\* system_weight, room_weight: the default of lines 532-533, and its reverse
WeightPairs == {<<6, 4>>, <<4, 6>>}

\* lines 251-258 and 479-485: the doc_types filter, none when empty
TypeFilter(S, doc_types) ==
  IF doc_types = {} THEN S ELSE {r \in S : r.doc_type \in doc_types}

\* the WHERE clause of search_documents_by_vector, lines 244-258
GlobalRows(store, doc_types) ==
  TypeFilter({r \in store : r.room_id = NoRoom}, doc_types)

\* the WHERE clause of search_documents_by_vector_with_room_context,
\* lines 462-485
RoomContextRows(store, room_id, doc_types) ==
  TypeFilter(IF room_id # NoRoom
               THEN {r \in store : r.room_id = room_id \/ r.room_id = NoRoom}
               ELSE {r \in store : r.room_id = NoRoom},
             doc_types)

\* sequences of n distinct elements of S
DistinctSeqs(S, n) ==
  {q \in [1..n -> S] : \A a, b \in 1..n : a # b => q[a] # q[b]}

\* ORDER BY similarity_score DESC LIMIT top_k: every order the database
\* may give to rows of equal similarity
TopKSeqs(S, top_k) ==
  {q \in DistinctSeqs(S, Min(top_k, Cardinality(S))) :
     /\ \A a \in 1..(Len(q) - 1) : q[a].similarity_score >= q[a+1].similarity_score
     /\ \A r \in S \ Range(q) :
          \A a \in 1..Len(q) : r.similarity_score <= q[a].similarity_score}

\* one search call: the query raises, or returns one of its possible lists
SearchRuns(S, top_k) ==
  {[raised |-> TRUE, rows |-> <<>>]}
  \cup {[raised |-> FALSE, rows |-> q] : q \in TopKSeqs(S, top_k)}

\* a search the call never gets to
NotRun == [raised |-> FALSE, rows |-> <<>>]

\* lines 270-291: a result dict of search_documents_by_vector
VectorResult(r) ==
  [chunk_id |-> r.chunk_id, similarity_score |-> r.similarity_score,
   doc_type |-> r.doc_type]

\* lines 498-521: a result dict of the room-context search
RoomContextResult(r) ==
  [chunk_id |-> r.chunk_id, similarity_score |-> r.similarity_score,
   doc_type |-> r.doc_type, room_id |-> r.room_id,
   is_room_document |-> r.room_id # NoRoom]

\* lines 566-567 and 572-573: the weighted score and the provenance tag
Weighted(result, weight, source_type) ==
  [k \in DOMAIN result \cup {"weighted_score", "source_type"} |->
     IF k = "weighted_score" THEN result.similarity_score * weight
     ELSE IF k = "source_type" THEN source_type
     ELSE result[k]]

\* the sort key of line 577, mistaken for the unweighted similarity
SortKeySimilarity(x) == x.similarity_score

\* line 577: key=lambda x: x["weighted_score"]
SortKey(x) == x.weighted_score

\* list.sort(key=..., reverse=True): descending and stable
RECURSIVE InsertDesc(_, _)
InsertDesc(sorted, x) ==
  IF sorted = <<>> THEN <<x>>
  ELSE IF SortKey(Head(sorted)) >= SortKey(x)
    THEN <<Head(sorted)>> \o InsertDesc(Tail(sorted), x)
    ELSE <<x>> \o sorted

RECURSIVE SortDesc(_)
SortDesc(q) ==
  IF q = <<>> THEN <<>>
  ELSE InsertDesc(SortDesc(SubSeq(q, 1, Len(q) - 1)), q[Len(q)])

\* lines 585-590: the fallback search, outside the try
HybridFallback(fb, path) ==
  IF fb.raised
    THEN [status |-> "raised", results |-> <<>>, path |-> path,
          system_results |-> <<>>, room_results |-> <<>>]
    ELSE [status |-> "returned",
          results |-> [i \in 1..Len(fb.rows) |-> VectorResult(fb.rows[i])],
          path |-> path, system_results |-> <<>>, room_results |-> <<>>]

\* search_documents_hybrid, lines 525-590.  sys, room and fb are what the
\* system search, the room-context search and the fallback search do when
\* they are called.
SearchDocumentsHybrid(room_id, top_k, system_weight, room_weight, sys, room, fb) ==
  IF sys.raised THEN HybridFallback(fb, "system_failed")
  ELSE IF room_id # NoRoom /\ room.raised THEN HybridFallback(fb, "room_failed")
  ELSE
    LET system_results == [i \in 1..Len(sys.rows) |-> VectorResult(sys.rows[i])]
        room_all ==
          IF room_id # NoRoom
            THEN [i \in 1..Len(room.rows) |-> RoomContextResult(room.rows[i])]
            ELSE <<>>
        room_results == SelectSeq(room_all, LAMBDA r : r.is_room_document)
        combined_results ==
          [i \in 1..Len(system_results) |->
             Weighted(system_results[i], system_weight, "system")]
          \o [i \in 1..Len(room_results) |->
                Weighted(room_results[i], room_weight, "room")]
        ordered == SortDesc(combined_results)
    IN  [status |-> "returned",
         results |-> SubSeq(ordered, 1, Min(top_k, Len(ordered))),
         path |-> "fused",
         system_results |-> system_results, room_results |-> room_results]

(***************************************************************************)
(* Normalized document text.  A text is a sequence of lines, each of one   *)
(* kind:                                                                   *)
(*   "hdr"      a markdown header line "# ..."                             *)
(*   "clause"   a line that starts with the native clause numbering        *)
(*   "article"  a line that starts with Article / ARTICLE                  *)
(*   "num"      a line that starts with "1." .. "9.", longer than 10 chars *)
(*   "short"    an ordinary line of 40 characters                          *)
(*   "long"     an ordinary line of 500 characters                         *)
(*   "blank"    an empty line                                              *)
(***************************************************************************)
LineKinds == {"hdr", "clause", "article", "num", "short", "long", "blank"}

\* len(line.strip())
LineLen(kind) ==
  CASE kind = "hdr" -> 20 [] kind = "clause" -> 12 [] kind = "article" -> 12
    [] kind = "num" -> 40 [] kind = "short" -> 40 [] kind = "long" -> 500
    [] kind = "blank" -> 0

SetMax(S) == CHOOSE x \in S : \A y \in S : x >= y

\* the elements of a set of integers, ascending
RECURSIVE SortedSeq(_)
SortedSeq(S) ==
  IF S = {} THEN <<>> ELSE <<SetMin(S)>> \o SortedSeq(S \ {SetMin(S)})

\* the sum of f over the set S
RECURSIVE SumOver(_, _)
SumOver(f, S) ==
  IF S = {} THEN 0
  ELSE LET x == CHOOSE y \in S : TRUE IN f[x] + SumOver(f, S \ {x})

\* the largest element of S below i, 0 when there is none
LastBefore(S, i) ==
  IF {x \in S : x < i} = {} THEN 0 ELSE SetMax({x \in S : x < i})

(***************************************************************************)
(* HierarchicalChunker, documents/chunking.py.                             *)
(***************************************************************************)
\* None in the place of a vector
NullVector == 0

\* lines 29-31: the settings of a new chunker and the splitter made of them
DefaultChunkSize == 500

DefaultChunkOverlap == 50

\* line 120: the length above which a section is split into children
ChildThreshold == 500

NewChunker ==
  [chunk_size |-> DefaultChunkSize, chunk_overlap |-> DefaultChunkOverlap,
   child_splitter |-> [chunk_size |-> DefaultChunkSize,
                       chunk_overlap |-> DefaultChunkOverlap]]

\* update_chunk_settings rebuilding the splitter without recording the
\* settings it was built from
UpdateChunkSettingsUnrecorded(chunker, chunk_size, chunk_overlap) ==
  [chunker EXCEPT !.child_splitter =
     [chunk_size |-> chunk_size, chunk_overlap |-> chunk_overlap]]

\* update_chunk_settings, lines 41-46
UpdateChunkSettings(chunker, chunk_size, chunk_overlap) ==
  [chunk_size |-> chunk_size, chunk_overlap |-> chunk_overlap,
   child_splitter |-> [chunk_size |-> chunk_size, chunk_overlap |-> chunk_overlap]]

\* lines 71-83: the lines MarkdownHeaderTextSplitter takes for headers:
\* "# ..." (Header 1) and the clause lines the pre-pass rewrote into "## ..."
\* (Header 2)
SplitterHeaders(lines) ==
  {i \in 1..Len(lines) : lines[i] \in {"hdr", "clause"}}

\* the lines that are section content: neither header nor empty
ContentLines(lines) ==
  {i \in 1..Len(lines) : lines[i] \notin {"hdr", "clause", "blank"}}

\* "" of metadata.get("Header n", "")
NoHeader == <<>>

\* len(page_content): the lines of a paragraph are joined by "\n", the
\* paragraphs of one section by "  \n"
ContentLength(lines, content) ==
  SumOver([x \in 1..Len(content) |->
             LineLen(lines[content[x]])
               + (IF x = 1 THEN 0
                  ELSE IF content[x] = content[x-1] + 1 THEN 1 ELSE 3)],
          1..Len(content))

\* line 83 and lines 91-97: the sections the header splitter returns, one per
\* run of content lines under the same headers, in text order, the clause
\* header promoted to Header 1.  A header text is the header line, told
\* apart from the other header lines by its position.
HeaderSplit(lines) ==
  LET heads == SplitterHeaders(lines)
      body == ContentLines(lines)
      starts == SortedSeq({LastBefore(heads, i) : i \in body})
      Section(h) ==
        LET content == SortedSeq({i \in body : LastBefore(heads, i) = h})
            h1 == IF h = 0 THEN 0
                  ELSE IF lines[h] = "hdr" THEN h
                  ELSE LastBefore({x \in heads : lines[x] = "hdr"}, h)
            header_2 == IF h # 0 /\ lines[h] = "clause"
                          THEN <<lines[h], h>> ELSE NoHeader
            header_1 == IF header_2 # NoHeader THEN header_2
                        ELSE IF h1 = 0 THEN NoHeader ELSE <<lines[h1], h1>>
        IN  [page_content |-> [x \in 1..Len(content) |-> lines[content[x]]],
             content_length |-> ContentLength(lines, content),
             header_1 |-> header_1, header_2 |-> header_2]
  IN  [s \in 1..Len(starts) |-> Section(starts[s])]

\* RecursiveCharacterTextSplitter(chunk_size, chunk_overlap) on a text of
\* the given length: pieces of at most chunk_size characters, each starting
\* chunk_overlap characters before the end of the one before
RECURSIVE SplitFrom(_, _, _)
SplitFrom(start, length, splitter) ==
  IF start + splitter.chunk_size >= length
    THEN <<[start |-> start, end |-> length]>>
    ELSE <<[start |-> start, end |-> start + splitter.chunk_size]>>
           \o SplitFrom(start + splitter.chunk_size - splitter.chunk_overlap,
                        length, splitter)

\* the threshold test taken for "at least the threshold"
NeedsChildrenAtLeast(section) == section.content_length >= ChildThreshold

\* line 120: only a section longer than the threshold is split further
NeedsChildren(section) == section.content_length > ChildThreshold

\* line 106: f"{filename}_parent_{parent_idx}"
ParentId(filename, parent_idx) == <<filename, "parent", parent_idx>>

\* line 125: f"{parent_id}_child_{child_idx}"
ChildId(parent_id, child_idx) == parent_id \o <<"child", child_idx>>

\* lines 105-117 and 149-155: the parent chunk of section parent_idx
ParentChunk(section, filename, parent_idx) ==
  [page_content |-> section.page_content,
   content_length |-> section.content_length,
   header_1 |-> section.header_1, header_2 |-> section.header_2,
   source |-> filename, chunk_type |-> "parent",
   parent_id |-> ParentId(filename, parent_idx), parent_index |-> parent_idx,
   is_standalone |-> ~NeedsChildren(section)]

\* a child that records its own child_id as its parent_id
ChildChunkSelfParent(section, filename, parent_idx, child_idx, piece) ==
  [page_content |-> <<section.page_content, piece.start, piece.end>>,
   content_length |-> piece.end - piece.start,
   header_1 |-> section.header_1, header_2 |-> section.header_2,
   source |-> filename, chunk_type |-> "child",
   parent_id |-> ChildId(ParentId(filename, parent_idx), child_idx),
   child_id |-> ChildId(ParentId(filename, parent_idx), child_idx),
   child_index |-> child_idx]

\* lines 121-136: child child_idx of section parent_idx
ChildChunk(section, filename, parent_idx, child_idx, piece) ==
  [page_content |-> <<section.page_content, piece.start, piece.end>>,
   content_length |-> piece.end - piece.start,
   header_1 |-> section.header_1, header_2 |-> section.header_2,
   source |-> filename, chunk_type |-> "child",
   parent_id |-> ParentId(filename, parent_idx),
   child_id |-> ChildId(ParentId(filename, parent_idx), child_idx),
   child_index |-> child_idx]

\* the concatenation of a sequence of sequences
RECURSIVE Flatten(_)
Flatten(ss) == IF ss = <<>> THEN <<>> ELSE Head(ss) \o Flatten(Tail(ss))

\* chunk_markdown, lines 48-194; parent_idx and child_idx count from zero
ChunkMarkdown(markdown_content, filename, chunker) ==
  LET sections == HeaderSplit(markdown_content)
      ChildrenOf(p) ==
        IF NeedsChildren(sections[p])
          THEN LET pieces == SplitFrom(0, sections[p].content_length,
                                       chunker.child_splitter)
               IN  [c \in 1..Len(pieces) |->
                      ChildChunk(sections[p], filename, p - 1, c - 1, pieces[c])]
          ELSE <<>>
  IN  [success |-> TRUE, filename |-> filename,
       parent_chunks |->
         [p \in 1..Len(sections) |-> ParentChunk(sections[p], filename, p - 1)],
       child_chunks |-> Flatten([p \in 1..Len(sections) |-> ChildrenOf(p)])]

\* lines 216-260: the vector-ready form of a parent chunk
ParentData(parent_chunk) ==
  [content |-> parent_chunk.page_content,
   chunk_id |-> parent_chunk.parent_id, parent_id |-> parent_chunk.parent_id,
   child_id |-> parent_chunk.parent_id, chunk_type |-> "parent",
   header_1 |-> parent_chunk.header_1, header_2 |-> parent_chunk.header_2,
   source_file |-> parent_chunk.source,
   content_length |-> parent_chunk.content_length,
   is_standalone |-> parent_chunk.is_standalone,
   embedding |-> NullVector, embedding_success |-> FALSE,
   is_for_embedding |-> parent_chunk.is_standalone]

\* lines 268-292: the vector-ready form of a child chunk
ChildData(child_chunk) ==
  [content |-> child_chunk.page_content,
   chunk_id |-> child_chunk.child_id, parent_id |-> child_chunk.parent_id,
   child_id |-> child_chunk.child_id, chunk_type |-> "child",
   header_1 |-> child_chunk.header_1, header_2 |-> child_chunk.header_2,
   source_file |-> child_chunk.source,
   content_length |-> child_chunk.content_length,
   is_for_embedding |-> TRUE]

\* create_vector_ready_chunks, lines 196-303: the parents, then the children
CreateVectorReadyChunks(chunking_result) ==
  IF ~chunking_result.success THEN <<>>
  ELSE [p \in 1..Len(chunking_result.parent_chunks) |->
          ParentData(chunking_result.parent_chunks[p])]
       \o [c \in 1..Len(chunking_result.child_chunks) |->
             ChildData(chunking_result.child_chunks[c])]

(***************************************************************************)
(* TitanEmbeddingService.embed_chunked_documents, aws/embedding_service.py *)
(* A vector is the number of its place in the list the embedding service   *)
(* returned (1 for the first); None is NullVector.  A text is blank when   *)
(* str.strip() leaves nothing of it.                                       *)
(***************************************************************************)
BlankTexts == {<<>>, <<"ws">>}

\* text.strip() is empty
IsBlank(text) == text \in BlankTexts

\* {**d, **u}, and d.copy() followed by the assignments of u
Merge(d, u) ==
  [k \in DOMAIN d \cup DOMAIN u |-> IF k \in DOMAIN u THEN u[k] ELSE d[k]]

\* what the batch call of line 163 does: it raises, or returns one vector
\* per text, in the order of the texts
EmbeddingOutcomes == {[raised |-> TRUE], [raised |-> FALSE]}

\* create_batch_embeddings, lines 66-96, when it does not raise
CreateBatchEmbeddings(texts) == [k \in 1..Len(texts) |-> k]

\* lines 128-136: a chunk that is not an embedding target, annotated
NonEmbeddingChunk(doc) ==
  Merge(doc, [embedding |-> NullVector, embedding_success |-> FALSE,
              embedding_metadata |->
                [model_id |-> "titan", reason |-> "parent_chunk",
                 chunk_type |-> Get(doc, "chunk_type", "unknown")]])

\* lines 174-182: a target that received its vector
EmbeddedChunk(doc, vector) ==
  Merge(doc, [embedding |-> vector, embedding_success |-> TRUE,
              embedding_metadata |->
                [model_id |-> "titan", normalized |-> TRUE,
                 chunk_type |-> Get(doc, "chunk_type", "child")]])

\* lines 184-186: a target whose text was blank
SkippedChunk(doc) ==
  Merge(doc, [embedding |-> NullVector, embedding_success |-> FALSE,
              embedding_error |-> "blank_or_failed"])

\* lines 217-225: a chunk of the failed call
FailedChunk(doc) ==
  Merge(doc, [embedding |-> NullVector, embedding_success |-> FALSE,
              embedding_error |-> "exception"])

\* line 123: doc.get("is_for_embedding", True)
IsTarget(doc) == Get(doc, "is_for_embedding", TRUE)

\* the vector taken by the place of the chunk among the targets
VectorIndexByTarget(target_idx, embedding_index) == target_idx

\* line 174: the vector is embeddings[embedding_index]
VectorIndex(target_idx, embedding_index) == embedding_index

\* lines 170-188: the loop over embedding_targets from target t on (targets
\* and places counted from one here); embedding_index counts the vectors
\* handed out.  An index outside the list is Python's IndexError.
RECURSIVE MergeTargets(_, _, _, _, _)
MergeTargets(targets, t, valid_indices, embeddings, embedding_index) ==
  IF t > Len(targets) THEN [raised |-> FALSE, docs |-> <<>>]
  ELSE IF t \in valid_indices /\ embedding_index < Len(embeddings)
    THEN LET at == VectorIndex(t - 1, embedding_index) + 1
             rest == MergeTargets(targets, t + 1, valid_indices, embeddings,
                                  embedding_index + 1)
         IN  IF at > Len(embeddings) \/ rest.raised
               THEN [raised |-> TRUE, docs |-> <<>>]
               ELSE [raised |-> FALSE,
                     docs |-> <<EmbeddedChunk(targets[t], embeddings[at])>>
                                \o rest.docs]
    ELSE LET rest == MergeTargets(targets, t + 1, valid_indices, embeddings,
                                  embedding_index)
         IN  IF rest.raised THEN rest
             ELSE [raised |-> FALSE,
                   docs |-> <<SkippedChunk(targets[t])>> \o rest.docs]

\* the indices, ascending, of the elements of q that satisfy Test
IndicesOf(q, Test(_)) == SortedSeq({i \in 1..Len(q) : Test(q[i])})

\* lines 117-212, the body of the try.  called: the batch call was made;
\* sent: the texts it was given.
EmbedTry(chunked_documents, svc) ==
  LET n == Len(chunked_documents)
      target_at == IndicesOf(chunked_documents, IsTarget)
      targets == [t \in 1..Len(target_at) |-> chunked_documents[target_at[t]]]
      texts == [t \in 1..Len(targets) |-> Get(targets[t], "content", <<>>)]
      valid_indices == {t \in 1..Len(texts) : ~IsBlank(texts[t])}
      valid == SortedSeq(valid_indices)
      valid_text_list == [v \in 1..Len(valid) |-> texts[valid[v]]]
      NoCallOut(docs) ==
        [raised |-> FALSE, called |-> FALSE, sent |-> <<>>, docs |-> docs]
  IN  IF targets = <<>>                                          \* line 145
        THEN NoCallOut([i \in 1..n |-> NonEmbeddingChunk(chunked_documents[i])])
      ELSE IF valid_indices = {}                                 \* line 157
        THEN NoCallOut(chunked_documents)
      ELSE IF svc.raised                                         \* line 163
        THEN [raised |-> TRUE, called |-> TRUE, sent |-> valid_text_list,
              docs |-> <<>>]
      ELSE
        LET embeddings == CreateBatchEmbeddings(valid_text_list)
            merged == MergeTargets(targets, 1, valid_indices, embeddings, 0)
            PlaceOf(i) == CHOOSE t \in 1..Len(target_at) : target_at[t] = i
        IN  IF merged.raised
              THEN [raised |-> TRUE, called |-> TRUE, sent |-> valid_text_list,
                    docs |-> <<>>]
              ELSE [raised |-> FALSE, called |-> TRUE, sent |-> valid_text_list,
                    docs |->
                      [i \in 1..n |->
                         IF IsTarget(chunked_documents[i])
                           THEN merged.docs[PlaceOf(i)]
                           ELSE NonEmbeddingChunk(chunked_documents[i])]]

\* embed_chunked_documents letting the failure of the batch call out
EmbedChunkedDocumentsNoCatch(chunked_documents, svc) ==
  IF chunked_documents = <<>>
    THEN [raised |-> FALSE, called |-> FALSE, sent |-> <<>>, docs |-> <<>>]
    ELSE EmbedTry(chunked_documents, svc)

\* embed_chunked_documents, lines 98-225
EmbedChunkedDocuments(chunked_documents, svc) ==
  IF chunked_documents = <<>>
    THEN [raised |-> FALSE, called |-> FALSE, sent |-> <<>>, docs |-> <<>>]
    ELSE LET r == EmbedTry(chunked_documents, svc)
         IN  IF r.raised
               THEN [raised |-> FALSE, called |-> r.called, sent |-> r.sent,
                     docs |-> [i \in 1..Len(chunked_documents) |->
                                 FailedChunk(chunked_documents[i])]]
               ELSE r

(***************************************************************************)
(* Persisting the chunks of one document:                                  *)
(* BaseDocumentService._process_document_chunks (documents/base_service.py)*)
(* and ExternalServiceClient.save_to_database (rag_pipeline.py).           *)
(***************************************************************************)
\* base_service.py lines 227-243, rag_pipeline.py lines 401-417: the Chunk
\* built of the chunk at place i of embedded_chunks, i counted from zero
ChunkObject(document_id, i, chunk_data) ==
  [document_id |-> document_id, content |-> Get(chunk_data, "content", <<>>),
   chunk_index |-> i,
   parent_id |-> Get(chunk_data, "parent_id", <<>>),
   child_id |-> Get(chunk_data, "child_id", <<>>),
   chunk_type |-> Get(chunk_data, "chunk_type", "child"),
   embedding |-> Get(chunk_data, "embedding", NullVector)]

\* base_service.py lines 224-244, rag_pipeline.py lines 398-418: the chunks
\* of blank content are left out
ChunkObjects(document_id, embedded_chunks) ==
  LET kept == IndicesOf(embedded_chunks,
                        LAMBDA c : ~IsBlank(Get(c, "content", <<>>)))
  IN  [k \in 1..Len(kept) |->
         ChunkObject(document_id, kept[k] - 1, embedded_chunks[kept[k]])]

(***************************************************************************)
(* The clause splitting of rag_pipeline.py: _split_contract_into_sections  *)
(* and _create_manual_sections, over the same texts.                       *)
(***************************************************************************)
\* paragraphs[:10]
ParagraphCap == 10

\* len(paragraph) > 50
MinParagraphLen == 50

\* the header of the section open at the start of the loop
Preamble == <<"preamble", 0>>

\* lines 2003-2020 and 1279-1296: the line opens a new section
IsNewSection(kind, current_section) ==
  \/ kind \in {"hdr", "clause", "article"}
  \/ kind = "num" /\ current_section.content = <<>>

\* lines 1996-2034 and 1272-1311: the loop over the lines from line i on
RECURSIVE SectionLoop(_, _, _, _)
SectionLoop(lines, i, current_section, sections) ==
  IF i > Len(lines) THEN [current_section |-> current_section, sections |-> sections]
  ELSE IF lines[i] = "blank"
    THEN SectionLoop(lines, i + 1, current_section, sections)
  ELSE IF IsNewSection(lines[i], current_section)
    THEN SectionLoop(lines, i + 1,
                     [header_1 |-> <<lines[i], i>>, content |-> <<>>,
                      chunk_type |-> "parent"],
                     IF current_section.content # <<>>
                       THEN Append(sections,
                                   Merge(current_section, [chunk_type |-> "parent"]))
                       ELSE sections)
  ELSE SectionLoop(lines, i + 1,
                   [current_section EXCEPT !.content = Append(@, i)], sections)

\* the paragraphs of markdown_content.split('\n\n'), blank ones dropped:
\* the runs of lines between empty lines, as <<first, last>>
Paragraphs(lines) ==
  LET first == {i \in 1..Len(lines) :
                  lines[i] # "blank" /\ (i = 1 \/ lines[i-1] = "blank")}
      LastOf(s) ==
        SetMax({e \in s..Len(lines) : \A x \in s..e : lines[x] # "blank"})
      starts == SortedSeq(first)
  IN  [p \in 1..Len(starts) |-> <<starts[p], LastOf(starts[p])>>]

\* len(paragraph)
ParagraphLen(lines, para) ==
  SumOver([x \in para[1]..para[2] |-> LineLen(lines[x])], para[1]..para[2])
    + (para[2] - para[1])

\* lines 2041-2052 and 1317-1328: the paragraph split taken when the loop
\* left no section
ParagraphSections(lines) ==
  LET paragraphs == Paragraphs(lines)
      capped == SubSeq(paragraphs, 1, Min(ParagraphCap, Len(paragraphs)))
      kept == IndicesOf(capped, LAMBDA para : ParagraphLen(lines, para) > MinParagraphLen)
  IN  [k \in 1..Len(kept) |->
         [header_1 |-> <<"clause_no", kept[k]>>,
          content |-> [x \in 1..(capped[kept[k]][2] - capped[kept[k]][1] + 1) |->
                         capped[kept[k]][1] + x - 1],
          chunk_type |-> "parent"]]

\* _split_contract_into_sections, lines 1971-2067
SplitContractIntoSections(markdown_content) ==
  LET loop == SectionLoop(markdown_content, 1,
                          [header_1 |-> Preamble, content |-> <<>>], <<>>)
      sections == IF loop.current_section.content # <<>>
                    THEN Append(loop.sections, loop.current_section)
                    ELSE loop.sections
  IN  IF sections = <<>> THEN ParagraphSections(markdown_content) ELSE sections

\* _create_manual_sections, lines 1252-1345
CreateManualSections(markdown_content) ==
  IF markdown_content = <<>> THEN <<>>
  ELSE
    LET loop == SectionLoop(markdown_content, 1,
                            [header_1 |-> Preamble, content |-> <<>>], <<>>)
        sections == IF loop.current_section.content # <<>>
                      THEN Append(loop.sections,
                                  Merge(loop.current_section,
                                        [chunk_type |-> "parent"]))
                      ELSE loop.sections
    IN  IF sections = <<>> THEN ParagraphSections(markdown_content) ELSE sections

(***************************************************************************)
(* The related clauses of _perform_contract_review (rag_pipeline.py).      *)
(* A section of the reviewed contract has a size, small (500 characters or *)
(* fewer) or large, and the similarity of its text to the text of the      *)
(* section under review.  Section numbers count from 1.                    *)
(***************************************************************************)
\* LIMIT 3 of the similarity query
RelatedLimit == 3

\* window_size = 2
WindowSize == 2

\* document_id = None
NoDocument == 0

SectionSizes == {"small", "large"}

SectionShapes == [size : SectionSizes, similarity_score : Sims]

\* the chunks table after the contract (document 1) was ingested next to
\* another document (document 2): the parents come first, numbered from 0;
\* a parent is stored with its embedding only when it is small, a large
\* parent without, its vector being carried by a child
ReviewStore(all_sections) ==
  {[document_id |-> 1, chunk_type |-> "parent", chunk_index |-> i - 1,
    embedded |-> all_sections[i].size = "small",
    similarity_score |-> all_sections[i].similarity_score] :
     i \in 1..Len(all_sections)}
  \cup {[document_id |-> 1, chunk_type |-> "child",
         chunk_index |-> Len(all_sections) + i - 1, embedded |-> TRUE,
         similarity_score |-> all_sections[i].similarity_score] :
          i \in {x \in 1..Len(all_sections) : all_sections[x].size = "large"}}
  \cup {[document_id |-> 2, chunk_type |-> "parent", chunk_index |-> 0,
         embedded |-> TRUE, similarity_score |-> 3]}

\* the WHERE clause of the similarity query, lines 1395-1399
SimilarClauseRows(store, document_id, current_index) ==
  {c \in store : /\ c.embedded
                 /\ c.chunk_type = "parent"
                 /\ c.document_id = document_id
                 /\ c.chunk_index # current_index}

\* lines 1414-1421: a related clause found by similarity
SimilarClause(clause) ==
  [clause_num |-> clause.chunk_index + 1, document_id |-> clause.document_id,
   similarity_score |-> clause.similarity_score, how |-> "similar"]

\* the window of lines 1429-1442 ending one section early
SlidingWindowShort(all_sections, current_section_index) ==
  LET start_idx == IF current_section_index - 1 - WindowSize > 0
                     THEN current_section_index - 1 - WindowSize ELSE 0
      end_idx == Min(Len(all_sections), current_section_index + WindowSize - 1)
      range == [k \in 1..(IF end_idx > start_idx THEN end_idx - start_idx ELSE 0) |->
                  start_idx + k - 1]
      kept == SelectSeq(range, LAMBDA idx : idx # current_section_index - 1)
  IN  [k \in 1..Len(kept) |->
         [clause_num |-> kept[k] + 1, document_id |-> NoDocument,
          similarity_score |-> 0, how |-> "adjacent"]]

\* lines 1429-1442 (and 1448-1461): the positional window, idx running over
\* range(start_idx, end_idx) without the section under review
SlidingWindow(all_sections, current_section_index) ==
  LET start_idx == IF current_section_index - 1 - WindowSize > 0
                     THEN current_section_index - 1 - WindowSize ELSE 0
      end_idx == Min(Len(all_sections), current_section_index + WindowSize)
      range == [k \in 1..(IF end_idx > start_idx THEN end_idx - start_idx ELSE 0) |->
                  start_idx + k - 1]
      kept == SelectSeq(range, LAMBDA idx : idx # current_section_index - 1)
  IN  [k \in 1..Len(kept) |->
         [clause_num |-> kept[k] + 1, document_id |-> NoDocument,
          similarity_score |-> 0, how |-> "adjacent"]]

\* lines 1361-1461: the related clauses of the section under review.
\* search is what the embedding of the section and the similarity query do
\* when they are tried: they raise, or the query returns its rows
RelatedSections(all_sections, current_section_index, document_id, search) ==
  IF all_sections = <<>>
    THEN [raised |-> FALSE, path |-> "none", related_sections |-> <<>>]
  ELSE IF document_id = NoDocument
    THEN [raised |-> FALSE, path |-> "window",
          related_sections |-> SlidingWindow(all_sections, current_section_index)]
  ELSE IF search.raised
    THEN [raised |-> FALSE, path |-> "fallback",
          related_sections |-> SlidingWindow(all_sections, current_section_index)]
  ELSE [raised |-> FALSE, path |-> "similar",
        related_sections |->
          [k \in 1..Len(search.rows) |-> SimilarClause(search.rows[k])]]

(***************************************************************************)
(* Version labels of the contracts of one room (base_service.py).  A       *)
(* label is the string "v" followed by a number, <<"v", n>>.               *)
(***************************************************************************)
V1 == <<"v", 1>>

\* _increment_version, lines 503-512
IncrementVersion(current_version) ==
  IF current_version = <<>> \/ current_version[1] # "v" THEN V1
  ELSE <<"v", current_version[2] + 1>>

\* get_latest_contract_in_room, lines 75-86: the newest contract of the room
\* that is not soft-deleted, <<>> when there is none.  docs is in creation
\* order.
GetLatestContractInRoom(docs) ==
  LET live == {i \in 1..Len(docs) : ~docs[i].deleted}
  IN  IF live = {} THEN <<>> ELSE <<docs[SetMax(live)]>>

\* lines 343-359: the version label of the contract being uploaded
NewVersion(docs) ==
  LET existing_doc == GetLatestContractInRoom(docs)
  IN  IF existing_doc # <<>> THEN IncrementVersion(existing_doc[1].version)
      ELSE V1

(***************************************************************************)
(* State.                                                                  *)
(***************************************************************************)
VARIABLES
  \* step3_contract_review_test
  pc,                    \* INIT, SCANNING, EVIDENCE_GATHERING, DETAILING,
                         \* REPORTING, DONE, FAILED
  parent_chunks,         \* the parent chunks read from the store (line 1884)
  scan_reply,            \* what the stage-1 LLM call did (history)
  violation_candidates,  \* the result of stage 1
  search_tasks,          \* the tasks handed to asyncio.gather (line 922)
  violations_with_laws,  \* the result of stage 2
  final_violations,      \* the list stage 3 appends to (line 963)
  detail_log,            \* per handled candidate, how its round ended (history)
  final_analysis,        \* the report handed to _save_chain_analysis_results
  saved_report,          \* the report file: <<>> or <<report>>
  returned,              \* "none", "True" or "False"
  search_calls,          \* evidence searches issued (history)
  llm3_calls,            \* stage-3 LLM calls issued (history)
  \* one reply under the stage-1 and stage-3 handling
  p_text, p_stage, p_result, p_cands, p_violation, p_analysis, p_final,
  \* the chunk store and the last search_documents_hybrid call
  rows,                  \* chunks joined with their documents
  deleted,               \* the documents whose deleted_at is set
  h_call,                \* the arguments of the call and what its searches did
  h_out,                 \* what the call returned, or that it raised
  \* one text under segmentation
  s_text, s_filename, s_stage,
  s_result,              \* the result of chunk_markdown
  s_chunks,              \* the result of create_vector_ready_chunks
  s_sections,            \* the result of a clause splitter of rag_pipeline.py
  \* one chunk list under embedding and persistence
  e_docs, e_stage,
  e_svc,                 \* what the batch embedding call did (history)
  e_out,                 \* what embed_chunked_documents returned
  e_rows,                \* the Chunk rows built of the embedded chunks
  \* the chunker in use, and the ingested documents
  chunker,               \* the settings and the child splitter of the chunker
  seg_log,               \* the calls of chunk_markdown made so far (history)
  documents,             \* the documents ingested, in order
  chunk_store,           \* the chunks table
  parent_lookup,         \* the last get_parent_chunk_content call
  \* one section of a contract under review
  r_sections,            \* all_sections
  r_call,                \* current_section_index and document_id of the call
  r_out,                 \* the related clauses of the call
  \* the contracts of one room and the upload handlers at work
  v_docs,                \* the room's contract documents, in creation order
  v_handlers             \* per upload handler: where it is, and its new_version

pipeVars ==
  <<pc, parent_chunks, scan_reply, violation_candidates, search_tasks,
    violations_with_laws, final_violations, detail_log, final_analysis,
    saved_report, returned, search_calls, llm3_calls>>

parseVars == <<p_text, p_stage, p_result, p_cands, p_violation, p_analysis, p_final>>

hybridVars == <<rows, deleted, h_call, h_out>>

segVars == <<s_text, s_filename, s_stage, s_result, s_chunks, s_sections>>

embVars == <<e_docs, e_stage, e_svc, e_out, e_rows>>

ingVars == <<chunker, seg_log, documents, chunk_store, parent_lookup>>

roomVars == <<r_sections, r_call, r_out, v_docs, v_handlers>>

ingestVars == <<segVars, embVars, ingVars, roomVars>>

vars == <<pipeVars, parseVars, hybridVars, ingestVars>>

(***************************************************************************)
(* One run of step3_contract_review_test.                                  *)
(***************************************************************************)
\* the replies the LLM is let to give during a run: bare JSON, fenced JSON,
\* JSON inside prose, a JSON array, broken JSON, plain prose, nothing
ReplyTexts ==
  {<<"obj">>, <<"open", "obj", "close">>, <<"prose", "obj", "prose">>,
   <<"arr">>, <<"bad">>, <<"open", "bad", "close">>, <<"prose">>, <<>>}

LlmReplies == {LlmRaise} \cup {LlmText(t) : t \in ReplyTexts}

NotCalled == [called |-> FALSE, raised |-> FALSE, text |-> <<>>, result |-> NoViolationsObject]

PipeIdle ==
  /\ pc = "IDLE"
  /\ parent_chunks = <<>>
  /\ scan_reply = NotCalled
  /\ violation_candidates = <<>>
  /\ search_tasks = <<>>
  /\ violations_with_laws = <<>>
  /\ final_violations = <<>>
  /\ detail_log = <<>>
  /\ final_analysis = EmptyReport
  /\ saved_report = <<>>
  /\ returned = "none"
  /\ search_calls = 0
  /\ llm3_calls = 0

NoCall ==
  [room_id |-> NoRoom, doc_types |-> {}, top_k |-> 0,
   system_weight |-> 0, room_weight |-> 0]

NoResult ==
  [status |-> "none", results |-> <<>>, path |-> "none",
   system_results |-> <<>>, room_results |-> <<>>]

HybridIdle ==
  /\ rows = {}
  /\ deleted = {}
  /\ h_call = NoCall
  /\ h_out = NoResult

ParseIdle ==
  /\ p_text = <<>>
  /\ p_stage = "idle"
  /\ p_result = NoViolationsObject
  /\ p_cands = <<>>
  /\ p_violation = WithLaws(CandA, <<>>)
  /\ p_analysis = VerdictFull
  /\ p_final = <<>>

Filenames == {"a.pdf", "b.pdf"}

\* the (chunk_size, chunk_overlap) pairs update_chunk_settings is called
\* with: the defaults, and a larger splitter
ChunkSettings == {<<500, 50>>, <<1000, 100>>}

\* the texts of the documents ingested: a clause of 541 characters; a short
\* headed section followed by such a clause; one short line
IngestTexts ==
  {<<"clause", "long", "short">>,
   <<"hdr", "short", "clause", "long", "short">>,
   <<"short">>}

\* a chunking result before any segmentation
NoChunking ==
  [success |-> FALSE, filename |-> "", parent_chunks |-> <<>>, child_chunks |-> <<>>]

SegmentIdle ==
  /\ s_text = <<>>
  /\ s_filename = ""
  /\ s_stage = "idle"
  /\ s_result = NoChunking
  /\ s_chunks = <<>>
  /\ s_sections = <<>>

NoEmbedding == [raised |-> FALSE, called |-> FALSE, sent |-> <<>>, docs |-> <<>>]

EmbedIdle ==
  /\ e_docs = <<>>
  /\ e_stage = "idle"
  /\ e_svc = [raised |-> FALSE]
  /\ e_out = NoEmbedding
  /\ e_rows = <<>>

NoLookup == [hit |-> <<>>, found |-> <<>>]

IngestIdle ==
  /\ chunker = NewChunker
  /\ seg_log = <<>>
  /\ documents = <<>>
  /\ chunk_store = {}
  /\ parent_lookup = NoLookup

NoReview == [current_section_index |-> 0, document_id |-> NoDocument]

NoRelated == [raised |-> FALSE, path |-> "idle", related_sections |-> <<>>]

Handlers == {"h1", "h2"}

HandlerIdle == [at |-> "idle", new_version |-> <<>>]

RoomIdle ==
  /\ r_sections = <<>>
  /\ r_call = NoReview
  /\ r_out = NoRelated
  /\ v_docs = <<>>
  /\ v_handlers = [h \in Handlers |-> HandlerIdle]

IngestAllIdle == SegmentIdle /\ EmbedIdle /\ IngestIdle /\ RoomIdle

PipeInit ==
  /\ pc = "INIT"
  /\ parent_chunks \in SeqsUpTo(ChunkRows, MaxClauses)
  /\ scan_reply = NotCalled
  /\ violation_candidates = <<>>
  /\ search_tasks = <<>>
  /\ violations_with_laws = <<>>
  /\ final_violations = <<>>
  /\ detail_log = <<>>
  /\ final_analysis = EmptyReport
  /\ saved_report = <<>>
  /\ returned = "none"
  /\ search_calls = 0
  /\ llm3_calls = 0

Init == PipeInit /\ ParseIdle /\ HybridIdle /\ IngestAllIdle

\* NoCandidates with the test of line 1915 left out
NoCandidatesNever(candidates) == FALSE

\* line 1915: if not violation_candidates
NoCandidates(candidates) == candidates = <<>>

\* lines 1893-1897: no parent chunk, no analysis
StartReview ==
  /\ pc = "INIT"
  /\ IF parent_chunks = <<>>
       THEN pc' = "FAILED" /\ returned' = "False"
       ELSE pc' = "SCANNING" /\ UNCHANGED returned
  /\ UNCHANGED <<parent_chunks, scan_reply, violation_candidates, search_tasks,
                 violations_with_laws, final_violations, detail_log,
                 final_analysis, saved_report, search_calls, llm3_calls>>
  /\ UNCHANGED <<parseVars, hybridVars, ingestVars>>

\* lines 1906-1925: stage 1, and the short cut when it finds nothing
Chain1 ==
  /\ pc = "SCANNING"
  /\ \E llm \in LlmReplies, result \in Stage1Objects :
       LET r == Chain1Identify(parent_chunks, llm, result)
       IN  /\ scan_reply' =
                IF PromptRaises(parent_chunks) THEN NotCalled
                ELSE [called |-> TRUE, raised |-> llm.raised, text |-> llm.text,
                      result |-> result]
           /\ IF r.raised
                THEN /\ pc' = "FAILED"                     \* line 1961
                     /\ returned' = "False"
                     /\ UNCHANGED <<violation_candidates, final_analysis>>
                ELSE /\ violation_candidates' = r.value
                     /\ UNCHANGED returned
                     /\ IF NoCandidates(r.value)
                          THEN pc' = "REPORTING" /\ final_analysis' = EmptyReport
                          ELSE pc' = "EVIDENCE_GATHERING" /\ UNCHANGED final_analysis
  /\ UNCHANGED <<parent_chunks, search_tasks, violations_with_laws,
                 final_violations, detail_log, saved_report, search_calls,
                 llm3_calls>>
  /\ UNCHANGED <<parseVars, hybridVars, ingestVars>>

\* lines 914-922: one search task per candidate, all handed to gather at once
Chain2Start ==
  /\ pc = "EVIDENCE_GATHERING"
  /\ Len(search_tasks) # Len(violation_candidates)
  /\ search_tasks' =
       [i \in 1..Len(violation_candidates) |->
          [state |-> "running", outcome |-> [failed |-> FALSE, rows |-> <<>>],
           result |-> [raised |-> FALSE, value |-> violation_candidates[i]]]]
  /\ search_calls' = search_calls + Len(violation_candidates)
  /\ UNCHANGED <<pc, parent_chunks, scan_reply, violation_candidates,
                 violations_with_laws, final_violations, detail_log,
                 final_analysis, saved_report, returned, llm3_calls>>
  /\ UNCHANGED <<parseVars, hybridVars, ingestVars>>

\* one running search task ends, in any order (lines 933-955)
SearchTask ==
  /\ pc = "EVIDENCE_GATHERING"
  /\ \E i \in 1..Len(search_tasks), outcome \in SearchOutcomes :
       /\ search_tasks[i].state = "running"
       /\ search_tasks' =
            [search_tasks EXCEPT ![i] =
               [state |-> "done", outcome |-> outcome,
                result |-> SearchLawsForViolation(violation_candidates[i], outcome)]]
  /\ UNCHANGED <<pc, parent_chunks, scan_reply, violation_candidates,
                 violations_with_laws, final_violations, detail_log,
                 final_analysis, saved_report, returned, search_calls, llm3_calls>>
  /\ UNCHANGED <<parseVars, hybridVars, ingestVars>>

\* lines 922-931 and 960-963: gather returns, stage 3 is entered
Chain2Gather ==
  /\ pc = "EVIDENCE_GATHERING"
  /\ Len(search_tasks) = Len(violation_candidates)
  /\ \A i \in 1..Len(search_tasks) : search_tasks[i].state = "done"
  /\ LET gathered ==
           GatherResults([i \in 1..Len(search_tasks) |-> search_tasks[i].result])
     IN  /\ violations_with_laws' = gathered
         /\ IF gathered = <<>>
              THEN pc' = "REPORTING" /\ final_analysis' = EmptyReport  \* line 961
              ELSE pc' = "DETAILING" /\ UNCHANGED final_analysis
  /\ UNCHANGED <<parent_chunks, scan_reply, violation_candidates, search_tasks,
                 final_violations, detail_log, saved_report, returned,
                 search_calls, llm3_calls>>
  /\ UNCHANGED <<parseVars, hybridVars, ingestVars>>

\* how a round of stage 3 ended
RoundKind(llm) ==
  IF llm.raised THEN "llm_error" ELSE JsonLoads(ExtractJson(llm.text))

\* the for loop of line 965 run as if every candidate's call were started
\* at once
MayCallAhead(calls, rounds, candidates) == calls < candidates

\* lines 965 and 1022-1026: the loop reaches the blocking invoke_model call
\* of a candidate once the rounds of the candidates before it have ended
MayCall(calls, rounds, candidates) == calls = rounds /\ rounds < candidates

\* lines 1022-1026: the stage-3 LLM call of the next candidate is issued
Chain3Call ==
  /\ pc = "DETAILING"
  /\ MayCall(llm3_calls, Len(detail_log), Len(violations_with_laws))
  /\ llm3_calls' = llm3_calls + 1
  /\ UNCHANGED <<pc, parent_chunks, scan_reply, violation_candidates,
                 search_tasks, violations_with_laws, final_violations,
                 detail_log, final_analysis, saved_report, returned,
                 search_calls>>
  /\ UNCHANGED <<parseVars, hybridVars, ingestVars>>

\* lines 1028-1061: the call of the next candidate returns or raises and
\* its round ends
Chain3Next ==
  /\ pc = "DETAILING"
  /\ Len(detail_log) < llm3_calls
  /\ \E llm \in LlmReplies, detailed_analysis \in Stage3Objects :
       /\ final_violations' =
            final_violations
              \o Chain3Round(violations_with_laws[Len(detail_log) + 1], llm,
                             detailed_analysis)
       /\ detail_log' = Append(detail_log, RoundKind(llm))
  /\ UNCHANGED <<pc, parent_chunks, scan_reply, violation_candidates,
                 search_tasks, violations_with_laws, final_analysis,
                 saved_report, returned, search_calls, llm3_calls>>
  /\ UNCHANGED <<parseVars, hybridVars, ingestVars>>

\* lines 1063-1071: every candidate handled, the report is built
Chain3Finish ==
  /\ pc = "DETAILING"
  /\ Len(detail_log) = Len(violations_with_laws)
  /\ final_analysis' = Chain3Report(final_violations)
  /\ pc' = "REPORTING"
  /\ UNCHANGED <<parent_chunks, scan_reply, violation_candidates, search_tasks,
                 violations_with_laws, final_violations, detail_log,
                 saved_report, returned, search_calls, llm3_calls>>
  /\ UNCHANGED <<parseVars, hybridVars, ingestVars>>

\* _save_chain_analysis_results, lines 1077-1128: the file is written or the
\* failure is logged; then lines 1925 / 1959 return True
SaveReport ==
  /\ pc = "REPORTING"
  /\ \E written \in BOOLEAN :
       saved_report' = IF written THEN <<final_analysis>> ELSE <<>>
  /\ returned' = "True"
  /\ pc' = "DONE"
  /\ UNCHANGED <<parent_chunks, scan_reply, violation_candidates, search_tasks,
                 violations_with_laws, final_violations, detail_log,
                 final_analysis, search_calls, llm3_calls>>
  /\ UNCHANGED <<parseVars, hybridVars, ingestVars>>

Next ==
  \/ StartReview
  \/ Chain1
  \/ Chain2Start
  \/ SearchTask
  \/ Chain2Gather
  \/ Chain3Call
  \/ Chain3Next
  \/ Chain3Finish
  \/ SaveReport

Spec == Init /\ [][Next]_vars

(***************************************************************************)
(* SpecParse: one reply text, drawn from every token sequence of at most   *)
(* MaxLen tokens, put through the stage-1 handling or the stage-3          *)
(* handling.                                                               *)
(***************************************************************************)
\* the evidence-augmented candidates stage 3 is tried on
Stage3Inputs ==
  {WithLaws(WithChunkIndex(c), laws) : c \in {CandA, CandB}, laws \in LawResultLists}

ParseInit ==
  /\ p_text \in Texts
  /\ p_stage = "input"
  /\ p_result = NoViolationsObject
  /\ p_cands = <<>>
  /\ p_violation = WithLaws(CandA, <<>>)
  /\ p_analysis = VerdictFull
  /\ p_final = <<>>

InitParse == PipeIdle /\ ParseInit /\ HybridIdle /\ IngestAllIdle

\* the reply is the answer to the stage-1 prompt
ParseChain1 ==
  /\ p_stage = "input"
  /\ \E result \in Stage1Objects :
       /\ p_result' = result
       /\ p_cands' = Chain1Parse(p_text, result)
  /\ p_stage' = "chain1"
  /\ UNCHANGED <<p_text, p_violation, p_analysis, p_final>>
  /\ UNCHANGED <<pipeVars, hybridVars, ingestVars>>

\* the reply is the answer to the stage-3 prompt of one candidate
ParseChain3 ==
  /\ p_stage = "input"
  /\ \E violation_data \in Stage3Inputs, detailed_analysis \in Stage3Objects :
       /\ p_violation' = violation_data
       /\ p_analysis' = detailed_analysis
       /\ p_final' = Chain3Parse(violation_data, p_text, detailed_analysis)
  /\ p_stage' = "chain3"
  /\ UNCHANGED <<p_text, p_result, p_cands>>
  /\ UNCHANGED <<pipeVars, hybridVars, ingestVars>>

NextParse == ParseChain1 \/ ParseChain3

SpecParse == InitParse /\ [][NextParse]_vars

(***************************************************************************)
(* SpecHybrid: chunks are stored, then search_documents_hybrid is called.  *)
(***************************************************************************)
InitHybrid == PipeIdle /\ ParseIdle /\ HybridIdle /\ IngestAllIdle

\* a chunk with its embedding is persisted
AddRow ==
  /\ Cardinality(rows) < MaxRows
  /\ h_out.status = "none"
  /\ \E room_id \in Rooms, doc_type \in DocTypes, sim \in Sims :
       rows' = rows \cup {[chunk_id |-> Cardinality(rows) + 1, room_id |-> room_id,
                           doc_type |-> doc_type, similarity_score |-> sim]}
  /\ UNCHANGED <<deleted, h_call, h_out>>
  /\ UNCHANGED <<pipeVars, parseVars, ingestVars>>

\* one call of search_documents_hybrid
HybridSearch ==
  /\ h_out.status = "none"
  /\ \E room_id \in Rooms, doc_types \in DocTypeArgs, top_k \in 1..MaxTopK,
        w \in WeightPairs :
       \E sys \in SearchRuns(GlobalRows(rows, doc_types), top_k) :
       \E room \in IF room_id # NoRoom /\ ~sys.raised
                     THEN SearchRuns(RoomContextRows(rows, room_id, doc_types), top_k)
                     ELSE {NotRun} :
       \E fb \in IF sys.raised \/ room.raised
                   THEN SearchRuns(GlobalRows(rows, doc_types), top_k)
                   ELSE {NotRun} :
         /\ h_call' = [room_id |-> room_id, doc_types |-> doc_types, top_k |-> top_k,
                       system_weight |-> w[1], room_weight |-> w[2]]
         /\ h_out' = SearchDocumentsHybrid(room_id, top_k, w[1], w[2], sys, room, fb)
  /\ UNCHANGED <<rows, deleted>>
  /\ UNCHANGED <<pipeVars, parseVars, ingestVars>>

NextHybrid == AddRow \/ HybridSearch

SpecHybrid == InitHybrid /\ [][NextHybrid]_vars

(***************************************************************************)
(* SpecDelete: documents of the store are soft-deleted and restored, then  *)
(* one of the three vector searches is called.  Every document of the      *)
(* store holds one chunk, so a row's chunk_id also names its document.     *)
(***************************************************************************)
\* soft_delete_document, lines 136-145: get_document_by_id leaves deleted
\* documents out, so only a live document gets its deleted_at set
SoftDeleteDocument ==
  /\ h_out.status = "none"
  /\ \E r \in rows :
       /\ r.chunk_id \notin deleted
       /\ deleted' = deleted \cup {r.chunk_id}
  /\ UNCHANGED <<rows, h_call, h_out>>
  /\ UNCHANGED <<pipeVars, parseVars, ingestVars>>

\* restore_document, lines 147-156: deleted_at of a deleted document is
\* cleared
RestoreDocument ==
  /\ h_out.status = "none"
  /\ \E document_id \in deleted : deleted' = deleted \ {document_id}
  /\ UNCHANGED <<rows, h_call, h_out>>
  /\ UNCHANGED <<pipeVars, parseVars, ingestVars>>

\* one call of search_documents_by_vector, lines 212-295
VectorSearch ==
  /\ h_out.status = "none"
  /\ \E doc_types \in DocTypeArgs, top_k \in 1..MaxTopK :
       \E run \in SearchRuns(GlobalRows(rows, doc_types), top_k) :
         /\ h_call' = [room_id |-> NoRoom, doc_types |-> doc_types,
                       top_k |-> top_k, system_weight |-> 0, room_weight |-> 0]
         /\ h_out' =
              [status |-> IF run.raised THEN "raised" ELSE "returned",
               results |-> [i \in 1..Len(run.rows) |-> VectorResult(run.rows[i])],
               path |-> "vector", system_results |-> <<>>, room_results |-> <<>>]
  /\ UNCHANGED <<rows, deleted>>
  /\ UNCHANGED <<pipeVars, parseVars, ingestVars>>

\* one call of search_documents_by_vector_with_room_context, lines 427-523
RoomContextSearch ==
  /\ h_out.status = "none"
  /\ \E room_id \in Rooms, doc_types \in DocTypeArgs, top_k \in 1..MaxTopK :
       \E run \in SearchRuns(RoomContextRows(rows, room_id, doc_types), top_k) :
         /\ h_call' = [room_id |-> room_id, doc_types |-> doc_types,
                       top_k |-> top_k, system_weight |-> 0, room_weight |-> 0]
         /\ h_out' =
              [status |-> IF run.raised THEN "raised" ELSE "returned",
               results |-> [i \in 1..Len(run.rows) |->
                              RoomContextResult(run.rows[i])],
               path |-> "room_context", system_results |-> <<>>,
               room_results |-> <<>>]
  /\ UNCHANGED <<rows, deleted>>
  /\ UNCHANGED <<pipeVars, parseVars, ingestVars>>

NextDelete ==
  \/ AddRow
  \/ SoftDeleteDocument
  \/ RestoreDocument
  \/ VectorSearch
  \/ RoomContextSearch
  \/ HybridSearch

SpecDelete == InitHybrid /\ [][NextDelete]_vars

\* update_chunk_settings on the chunker instance in use
UpdateSettings ==
  /\ \E cs \in ChunkSettings :
       chunker' = UpdateChunkSettings(chunker, cs[1], cs[2])
  /\ UNCHANGED <<seg_log, documents, chunk_store, parent_lookup>>
  /\ UNCHANGED <<pipeVars, parseVars, hybridVars, roomVars, segVars, embVars>>

(***************************************************************************)
(* SpecSegment: one text, drawn from every sequence of at most MaxLines    *)
(* lines, segmented by chunk_markdown + create_vector_ready_chunks, or     *)
(* split by one of the two clause splitters of rag_pipeline.py.            *)
(***************************************************************************)
InitSegment ==
  /\ PipeIdle /\ ParseIdle /\ HybridIdle /\ EmbedIdle /\ IngestIdle /\ RoomIdle
  /\ s_text \in SeqsUpTo(LineKinds, MaxLines)
  /\ s_filename \in Filenames
  /\ s_stage = "input"
  /\ s_result = NoChunking
  /\ s_chunks = <<>>
  /\ s_sections = <<>>

\* chunk_markdown followed by create_vector_ready_chunks
SegmentText ==
  /\ s_stage = "input"
  /\ s_result' = ChunkMarkdown(s_text, s_filename, chunker)
  /\ s_chunks' = CreateVectorReadyChunks(ChunkMarkdown(s_text, s_filename, chunker))
  /\ s_stage' = "chunked"
  /\ UNCHANGED <<s_text, s_filename, s_sections>>
  /\ UNCHANGED <<pipeVars, parseVars, hybridVars, roomVars, embVars, ingVars>>

\* _split_contract_into_sections on the text
SplitContract ==
  /\ s_stage = "input"
  /\ s_sections' = SplitContractIntoSections(s_text)
  /\ s_stage' = "split"
  /\ UNCHANGED <<s_text, s_filename, s_result, s_chunks>>
  /\ UNCHANGED <<pipeVars, parseVars, hybridVars, roomVars, embVars, ingVars>>

\* _create_manual_sections on the text
ManualSections ==
  /\ s_stage = "input"
  /\ s_sections' = CreateManualSections(s_text)
  /\ s_stage' = "manual"
  /\ UNCHANGED <<s_text, s_filename, s_result, s_chunks>>
  /\ UNCHANGED <<pipeVars, parseVars, hybridVars, roomVars, embVars, ingVars>>

NextSegment == UpdateSettings \/ SegmentText \/ SplitContract \/ ManualSections

SpecSegment == InitSegment /\ [][NextSegment]_vars

(***************************************************************************)
(* SpecResegment: texts are segmented one after the other by the same      *)
(* chunker, whose settings may be changed in between.                      *)
(***************************************************************************)
InitResegment ==
  /\ PipeIdle /\ ParseIdle /\ HybridIdle
  /\ SegmentIdle /\ EmbedIdle /\ IngestIdle /\ RoomIdle

\* one call of chunk_markdown, its arguments and result recorded
Segment ==
  /\ Len(seg_log) < MaxSegs
  /\ \E markdown_content \in IngestTexts, filename \in Filenames :
       seg_log' =
         Append(seg_log,
                [markdown_content |-> markdown_content, filename |-> filename,
                 chunk_size |-> chunker.chunk_size,
                 chunk_overlap |-> chunker.chunk_overlap,
                 result |-> ChunkMarkdown(markdown_content, filename, chunker)])
  /\ UNCHANGED <<chunker, documents, chunk_store, parent_lookup>>
  /\ UNCHANGED <<pipeVars, parseVars, hybridVars, roomVars, segVars, embVars>>

NextResegment == UpdateSettings \/ Segment

SpecResegment == InitResegment /\ [][NextResegment]_vars

(***************************************************************************)
(* SpecEmbed: one list of vector-ready chunks, drawn from every list of at *)
(* most MaxChunks chunks, embedded and then persisted.                     *)
(***************************************************************************)
\* the kinds of chunk create_vector_ready_chunks hands over, with text or
\* with blank text
ChunkShapes == {"large_parent", "standalone", "standalone_blank", "child", "child_blank"}

\* the chunk of the given shape at place i of the list
ShapedChunk(shape, i) ==
  LET content == IF shape \in {"standalone_blank", "child_blank"}
                   THEN <<"ws">> ELSE <<"text", i>>
  IN  IF shape \in {"child", "child_blank"}
        THEN [content |-> content, chunk_type |-> "child",
              chunk_id |-> <<"doc", "child", i>>, parent_id |-> <<"doc", "parent", 0>>,
              child_id |-> <<"doc", "child", i>>, is_for_embedding |-> TRUE]
        ELSE [content |-> content, chunk_type |-> "parent",
              chunk_id |-> <<"doc", "parent", i>>, parent_id |-> <<"doc", "parent", i>>,
              child_id |-> <<"doc", "parent", i>>,
              embedding |-> NullVector, embedding_success |-> FALSE,
              is_for_embedding |-> shape # "large_parent"]

ChunkLists ==
  {[i \in 1..Len(shapes) |-> ShapedChunk(shapes[i], i)] :
     shapes \in SeqsUpTo(ChunkShapes, MaxChunks)}

InitEmbed ==
  /\ PipeIdle /\ ParseIdle /\ HybridIdle /\ SegmentIdle /\ IngestIdle /\ RoomIdle
  /\ e_docs \in ChunkLists
  /\ e_stage = "input"
  /\ e_svc = [raised |-> FALSE]
  /\ e_out = NoEmbedding
  /\ e_rows = <<>>

\* embed_chunked_documents on the list
EmbedDocs ==
  /\ e_stage = "input"
  /\ \E svc \in EmbeddingOutcomes :
       /\ e_svc' = svc
       /\ e_out' = EmbedChunkedDocuments(e_docs, svc)
  /\ e_stage' = "embedded"
  /\ UNCHANGED <<e_docs, e_rows>>
  /\ UNCHANGED <<pipeVars, parseVars, hybridVars, roomVars, segVars, ingVars>>

\* base_service.py lines 222-247: the embedded chunks are persisted; an
\* exception that got out of the embedding step ends the handler at line 249
StoreChunks ==
  /\ e_stage = "embedded"
  /\ IF e_out.raised
       THEN e_rows' = <<>> /\ e_stage' = "failed"
       ELSE e_rows' = ChunkObjects(1, e_out.docs) /\ e_stage' = "stored"
  /\ UNCHANGED <<e_docs, e_svc, e_out>>
  /\ UNCHANGED <<pipeVars, parseVars, hybridVars, roomVars, segVars, ingVars>>

\* rag_pipeline.py lines 397-425: the same loop in save_to_database
SaveChunks ==
  /\ e_stage = "embedded"
  /\ IF e_out.raised
       THEN e_rows' = <<>> /\ e_stage' = "failed"
       ELSE e_rows' = ChunkObjects(1, e_out.docs) /\ e_stage' = "saved"
  /\ UNCHANGED <<e_docs, e_svc, e_out>>
  /\ UNCHANGED <<pipeVars, parseVars, hybridVars, roomVars, segVars, ingVars>>

NextEmbed == EmbedDocs \/ StoreChunks \/ SaveChunks

SpecEmbed == InitEmbed /\ [][NextEmbed]_vars

(***************************************************************************)
(* SpecIngest: documents are ingested into one chunk store by either flow, *)
(* and the parent of a child chunk is looked up by its parent_id.          *)
(***************************************************************************)
InitIngest ==
  /\ PipeIdle /\ ParseIdle /\ HybridIdle
  /\ SegmentIdle /\ EmbedIdle /\ IngestIdle /\ RoomIdle

\* the rows persisted for a document: none when an exception ended the flow
IngestedRows(document_id, markdown_content, filename, used_chunker, svc) ==
  LET chunking_result == ChunkMarkdown(markdown_content, filename, used_chunker)
      vector_ready_chunks == CreateVectorReadyChunks(chunking_result)
      embedded == EmbedChunkedDocuments(vector_ready_chunks, svc)
  IN  IF embedded.raised THEN {}
      ELSE Range(ChunkObjects(document_id, embedded.docs))

\* _process_document_chunks, base_service.py lines 200-251, for an uploaded
\* document: the service's chunker is used
ProcessDocumentChunks ==
  /\ Len(documents) < MaxDocs
  /\ \E markdown_content \in IngestTexts, filename \in Filenames,
        svc \in EmbeddingOutcomes :
       LET document_id == Len(documents) + 1
       IN  /\ documents' = Append(documents, [id |-> document_id, filename |-> filename])
           /\ chunk_store' =
                chunk_store
                  \cup IngestedRows(document_id, markdown_content, filename, chunker, svc)
  /\ UNCHANGED <<chunker, seg_log, parent_lookup>>
  /\ UNCHANGED <<pipeVars, parseVars, hybridVars, roomVars, segVars, embVars>>

\* save_to_database, rag_pipeline.py lines 343-430: a chunker of its own,
\* made at line 381, is used
SaveToDatabase ==
  /\ Len(documents) < MaxDocs
  /\ \E markdown_content \in IngestTexts, filename \in Filenames,
        svc \in EmbeddingOutcomes :
       LET document_id == Len(documents) + 1
       IN  /\ documents' = Append(documents, [id |-> document_id, filename |-> filename])
           /\ chunk_store' =
                chunk_store
                  \cup IngestedRows(document_id, markdown_content, filename,
                                    NewChunker, svc)
  /\ UNCHANGED <<chunker, seg_log, parent_lookup>>
  /\ UNCHANGED <<pipeVars, parseVars, hybridVars, roomVars, segVars, embVars>>

\* repository.py lines 297-327, called for a child hit at search/service.py
\* lines 52-59: LIMIT 1 of the parent rows with the hit's parent_id, any of
\* them when there are several
GetParentChunkContent ==
  /\ \E hit \in {c \in chunk_store : c.chunk_type = "child"} :
       \E parent \in {p \in chunk_store :
                        p.chunk_type = "parent" /\ p.parent_id = hit.parent_id} :
         parent_lookup' = [hit |-> <<hit>>, found |-> <<parent>>]
  /\ UNCHANGED <<chunker, seg_log, documents, chunk_store>>
  /\ UNCHANGED <<pipeVars, parseVars, hybridVars, roomVars, segVars, embVars>>

NextIngest ==
  \/ UpdateSettings
  \/ ProcessDocumentChunks
  \/ SaveToDatabase
  \/ GetParentChunkContent

SpecIngest == InitIngest /\ [][NextIngest]_vars

(***************************************************************************)
(* SpecReview: the related clauses of one section of one contract.         *)
(***************************************************************************)
InitReview ==
  /\ PipeIdle /\ ParseIdle /\ HybridIdle
  /\ SegmentIdle /\ EmbedIdle /\ IngestIdle
  /\ r_sections \in SeqsUpTo(SectionShapes, MaxSections)
  /\ r_call = NoReview
  /\ r_out = NoRelated
  /\ v_docs = <<>>
  /\ v_handlers = [h \in Handlers |-> HandlerIdle]

\* _perform_contract_review up to line 1461, for one section of the contract
ReviewSection ==
  /\ r_out.path = "idle"
  /\ r_sections # <<>>
  /\ \E current_section_index \in 1..Len(r_sections), document_id \in {NoDocument, 1} :
       \E search \in SearchRuns(SimilarClauseRows(ReviewStore(r_sections), document_id,
                                                  current_section_index - 1),
                                RelatedLimit) :
         /\ r_call' = [current_section_index |-> current_section_index,
                       document_id |-> document_id]
         /\ r_out' = RelatedSections(r_sections, current_section_index,
                                     document_id, search)
  /\ UNCHANGED <<r_sections, v_docs, v_handlers>>
  /\ UNCHANGED <<pipeVars, parseVars, hybridVars, segVars, embVars, ingVars>>

\* the caller goes on to the next section
ReviewNext ==
  /\ r_out.path # "idle"
  /\ r_call' = NoReview
  /\ r_out' = NoRelated
  /\ UNCHANGED <<r_sections, v_docs, v_handlers>>
  /\ UNCHANGED <<pipeVars, parseVars, hybridVars, segVars, embVars, ingVars>>

NextReview == ReviewSection \/ ReviewNext

SpecReview == InitReview /\ [][NextReview]_vars

(***************************************************************************)
(* SpecVersion: contracts are uploaded into one room by two handlers whose *)
(* steps interleave at the awaits between the version lookup and the       *)
(* insert, and documents are soft-deleted and restored.                    *)
(***************************************************************************)
InitVersion == InitHybrid

\* lines 343-359: the handler looks up the latest contract and fixes its
\* new_version
UploadLookup(h) ==
  /\ v_handlers[h].at = "idle"
  /\ Len(v_docs) + Cardinality({g \in Handlers : v_handlers[g].at = "looked_up"})
       < MaxUploads
  /\ v_handlers' = [v_handlers EXCEPT ![h] =
                      [at |-> "looked_up", new_version |-> NewVersion(v_docs)]]
  /\ UNCHANGED <<r_sections, r_call, r_out, v_docs>>
  /\ UNCHANGED <<pipeVars, parseVars, hybridVars, segVars, embVars, ingVars>>

\* lines 363-450: after the S3 uploads the document is created with the
\* version fixed before
UploadCreate(h) ==
  /\ v_handlers[h].at = "looked_up"
  /\ v_docs' = Append(v_docs, [version |-> v_handlers[h].new_version,
                               deleted |-> FALSE])
  /\ v_handlers' = [v_handlers EXCEPT ![h] = HandlerIdle]
  /\ UNCHANGED <<r_sections, r_call, r_out>>
  /\ UNCHANGED <<pipeVars, parseVars, hybridVars, segVars, embVars, ingVars>>

\* soft_delete_document of a contract of the room
SoftDeleteContract ==
  /\ \E i \in 1..Len(v_docs) :
       /\ ~v_docs[i].deleted
       /\ v_docs' = [v_docs EXCEPT ![i].deleted = TRUE]
  /\ UNCHANGED <<r_sections, r_call, r_out, v_handlers>>
  /\ UNCHANGED <<pipeVars, parseVars, hybridVars, segVars, embVars, ingVars>>

\* restore_document of a contract of the room
RestoreContract ==
  /\ \E i \in 1..Len(v_docs) :
       /\ v_docs[i].deleted
       /\ v_docs' = [v_docs EXCEPT ![i].deleted = FALSE]
  /\ UNCHANGED <<r_sections, r_call, r_out, v_handlers>>
  /\ UNCHANGED <<pipeVars, parseVars, hybridVars, segVars, embVars, ingVars>>

NextVersion ==
  \/ \E h \in Handlers : UploadLookup(h)
  \/ \E h \in Handlers : UploadCreate(h)
  \/ SoftDeleteContract
  \/ RestoreContract

SpecVersion == InitVersion /\ [][NextVersion]_vars

(***************************************************************************)
(* Properties of a run (Spec).                                             *)
(***************************************************************************)
Running == pc \in {"INIT", "SCANNING", "EVIDENCE_GATHERING", "DETAILING", "REPORTING"}

\* C1: once the chain analysis has started on a non-empty parent-chunk
\* list, no LLM error, malformed reply or failed evidence search makes the
\* run fail: FAILED is entered only from an empty chunk list, a run that has
\* not ended can always take its next step, and at DONE the run has returned
\* True with a report whose verdicts are those of stage 3; the file, when it
\* was written, holds that report.
C1_RunNeverFails ==
  /\ pc = "FAILED" => parent_chunks = <<>> /\ returned = "False"
  /\ Running => ENABLED Next
  /\ pc = "DONE" =>
       /\ returned = "True"
       /\ final_analysis.violations = final_violations
       /\ saved_report # <<>> => saved_report = <<final_analysis>>

\* a finished run in which a search failed, one stage-3 LLM call raised and
\* another stage-3 reply was not JSON
C1_Witness ==
  /\ pc = "DONE"
  /\ returned = "True"
  /\ saved_report = <<final_analysis>>
  /\ \E i \in 1..Len(search_tasks) : search_tasks[i].outcome.failed
  /\ "llm_error" \in Range(detail_log)
  /\ "error" \in Range(detail_log)

\* the reply holds no JSON value at all
NoJsonIn(text) == Range(text) \cap {"obj", "arr"} = {}

\* C2: when stage 1 yields no candidate, stages 2 and 3 are never entered,
\* no evidence search and no stage-3 LLM call is issued, and the run ends
\* with a report of zero verdicts and returns True; a reply that is the
\* no-violations object and a reply that is not JSON both yield no candidate.
C2_EmptyScanShortCircuits ==
  /\ (pc \in {"EVIDENCE_GATHERING", "DETAILING", "REPORTING", "DONE"}
        /\ violation_candidates = <<>>) =>
       /\ pc \in {"REPORTING", "DONE"}
       /\ search_calls = 0
       /\ llm3_calls = 0
       /\ search_tasks = <<>>
       /\ final_analysis = EmptyReport
       /\ pc = "DONE" => returned = "True" /\ saved_report \in {<<>>, <<EmptyReport>>}
  /\ (pc \in {"EVIDENCE_GATHERING", "DETAILING", "REPORTING", "DONE"}
        /\ scan_reply.called /\ ~scan_reply.raised
        /\ \/ NoJsonIn(scan_reply.text)
           \/ /\ scan_reply.text \in {<<"obj">>, <<"open", "obj", "close">>}
              /\ scan_reply.result = NoViolationsObject) =>
       violation_candidates = <<>>

\* a finished run whose stage-1 reply was the fenced no-violations object
C2_Witness ==
  /\ pc = "DONE"
  /\ scan_reply.called
  /\ scan_reply.text = <<"open", "obj", "close">>
  /\ scan_reply.result = NoViolationsObject
  /\ saved_report = <<EmptyReport>>
  /\ returned = "True"

\* C3 (the claim as stated): the report holds exactly one verdict per
\* candidate stage 2 handed over, whatever went wrong while detailing it.
C3_OneVerdictPerCandidate ==
  pc \in {"REPORTING", "DONE"} =>
    Len(final_analysis.violations) = Len(violations_with_laws)

\* the candidate's own keys are untouched in its evidence-augmented copy
SameCandidate(entry, violation) ==
  /\ DOMAIN entry = DOMAIN violation \cup {"related_laws", "laws_found"}
  /\ \A k \in DOMAIN violation : entry[k] = violation[k]

\* what candidate i's search is to contribute, from its own outcome only
ExpectedLaws(i) ==
  IF search_tasks[i].outcome.failed THEN <<>> ELSE search_tasks[i].outcome.rows

\* C6: stage 2 starts one search per candidate, all together, and returns
\* one evidence-augmented entry per candidate in candidate order; a failed
\* search gives its candidate related_laws = [] and laws_found = 0 and
\* leaves every other entry as its own search made it; laws_found is the
\* length of related_laws.
C6_Stage2OneEntryPerCandidate ==
  /\ (pc = "EVIDENCE_GATHERING" /\ search_tasks # <<>>) =>
       Len(search_tasks) = Len(violation_candidates)
  /\ (pc \in {"DETAILING", "REPORTING", "DONE"} /\ violation_candidates # <<>>) =>
       /\ Len(violations_with_laws) = Len(violation_candidates)
       /\ \A i \in 1..Len(violation_candidates) :
            /\ SameCandidate(violations_with_laws[i], violation_candidates[i])
            /\ violations_with_laws[i].related_laws = ExpectedLaws(i)
            /\ violations_with_laws[i].laws_found =
                 Len(violations_with_laws[i].related_laws)
            /\ search_tasks[i].outcome.failed =>
                 /\ violations_with_laws[i].related_laws = <<>>
                 /\ violations_with_laws[i].laws_found = 0

\* stage 2 ended with the first candidate's search failed and the second
\* candidate holding its three rows
C6_Witness ==
  /\ pc = "DETAILING"
  /\ Len(violations_with_laws) = 2
  /\ search_tasks[1].outcome.failed
  /\ ~search_tasks[2].outcome.failed
  /\ violations_with_laws[1].laws_found = 0
  /\ violations_with_laws[2].laws_found = 3

(***************************************************************************)
(* Properties of the reply handling (SpecParse).                           *)
(***************************************************************************)
\* the entries of a violations array, as stage 1 hands them on
AsCandidates(violations) ==
  [i \in 1..Len(violations) |-> WithChunkIndex(violations[i])]

\* the object's violations value is an array of objects whose locator, if
\* they have one, is a string
WellFormed(result) ==
  /\ result.vtype = "list"
  /\ \A i \in 1..Len(result.violations) :
       /\ IsDict(result.violations[i])
       /\ Get(result.violations[i], "clause_number", <<>>) # NullLocator

\* one JSON object with prose around it and nothing else: no fence
BareInProse(text) ==
  /\ \E i \in 1..Len(text) :
       /\ text[i] = "obj"
       /\ \A x \in 1..Len(text) : x # i => text[x] \in {"prose", "ws"}
  /\ "prose" \in Range(text)

\* C4 (the claim as stated): a bare JSON object surrounded by prose is
\* parsed in both stages: stage 1 returns the object's violations as
\* candidates and stage 3 records the object as the verdict.
C4_BareJsonInProseParses ==
  /\ (p_stage = "chain1" /\ BareInProse(p_text) /\ WellFormed(p_result)) =>
       p_cands = AsCandidates(p_result.violations)
  /\ (p_stage = "chain3" /\ BareInProse(p_text)) => p_final = <<p_analysis>>

\* a ```json fence, the object and a closing fence, whitespace allowed
\* around the object, any text after the block and any text before it
\* that opens no fence of its own
FencedObject(text) ==
  \E i, j, m \in 1..Len(text) :
    /\ i < j /\ j < m
    /\ text[i] = "open"
    /\ \A x \in 1..(i-1) : text[x] # "open"
    /\ text[j] = "obj"
    /\ \A x \in (i+1)..(j-1) : text[x] = "ws"
    /\ text[m] = "close"
    /\ \A x \in (j+1)..(m-1) : text[x] = "ws"

FirstTwoFilenames(laws) ==
  [i \in 1..(IF Len(laws) < 2 THEN Len(laws) ELSE 2) |->
     SelectSeq(laws[i].filename, LAMBDA tok : tok # ".pdf")]

\* C7: when the stage-3 reply of a candidate is not parseable JSON, the
\* verdict recorded is the fallback: location "<clause_number>
\* (<clause_title>)", the stage-1 risk_type and brief_reason, the fixed
\* recommendation text, and as cited laws the filenames without .pdf of at
\* most the first 2 evidence items, in evidence order.
C7_FallbackVerdict ==
  (p_stage = "chain3" /\ JsonLoads(ExtractJson(p_text)) = "error") =>
    /\ Len(p_final) = 1
    /\ p_final[1].johang_wichi =
         p_violation.clause_number \o <<" ", "(">>
           \o (IF "clause_title" \in DOMAIN p_violation
                 THEN p_violation.clause_title ELSE <<>>)
           \o <<")">>
    /\ p_final[1].risk_yuhyeong = p_violation.risk_type
    /\ p_final[1].pandan_geungeo = p_violation.brief_reason
    /\ p_final[1].uigyeon = FallbackOpinion
    /\ p_final[1].gwallyeon_beopryeong = FirstTwoFilenames(p_violation.related_laws)

\* a broken fenced reply for a candidate that holds three evidence items
C7_Witness ==
  /\ p_stage = "chain3"
  /\ p_text = <<"open", "bad", "close">>
  /\ p_violation.related_laws = <<Law3, Law1, Law2>>
  /\ p_final[1].gwallyeon_beopryeong = <<<<"a", "b">>, <<"civil_act">>>>

(***************************************************************************)
(* Properties of the hybrid search (SpecHybrid).                           *)
(***************************************************************************)
\* the call took the fusion path for a named workspace: both searches ran
FusedWithRoom == h_out.path = "fused" /\ h_call.room_id # NoRoom

\* a fused entry without the two fields fusion added
Unweighted(e) ==
  [k \in DOMAIN e \ {"weighted_score", "source_type"} |-> e[k]]

\* the union of the two result lists, each result tagged with its corpus
TaggedUnion ==
  {<<"system", r>> : r \in Range(h_out.system_results)}
  \cup {<<"room", r>> : r \in Range(h_out.room_results)}

\* similarity times the weight of the corpus
ScoreOf(u) ==
  u[2].similarity_score
    * (IF u[1] = "system" THEN h_call.system_weight ELSE h_call.room_weight)

TagOf(e) == <<e.source_type, Unweighted(e)>>

\* C8: with a workspace given and both searches succeeding, the call
\* returns the top_k of the weighted union: every entry is a global result
\* scored similarity x system_weight or a workspace result scored
\* similarity x room_weight, the entries are in descending weighted order,
\* nothing left out outscores an entry, and there are min(top_k, size of the
\* union) entries, never more than top_k.
C8_FusedTopK ==
  FusedWithRoom =>
    LET out == h_out.results
    IN  /\ h_out.status = "returned"
        /\ Len(out) <= h_call.top_k
        /\ Len(out) =
             Min(h_call.top_k, Len(h_out.system_results) + Len(h_out.room_results))
        /\ \A i \in 1..Len(out) :
             /\ TagOf(out[i]) \in TaggedUnion
             /\ out[i].weighted_score = ScoreOf(TagOf(out[i]))
        /\ \A i, j \in 1..Len(out) : i # j => TagOf(out[i]) # TagOf(out[j])
        /\ \A i \in 1..(Len(out) - 1) : out[i].weighted_score >= out[i+1].weighted_score
        /\ \A u \in TaggedUnion \ {TagOf(out[i]) : i \in 1..Len(out)} :
             \A i \in 1..Len(out) : ScoreOf(u) <= out[i].weighted_score

\* a fused call that had to truncate, a workspace result ranked first and a
\* global result behind it
C8_Witness ==
  /\ FusedWithRoom
  /\ Len(h_out.system_results) + Len(h_out.room_results) > h_call.top_k
  /\ Len(h_out.results) = 2
  /\ h_out.results[1].source_type = "room"
  /\ h_out.results[2].source_type = "system"

\* the lists a global search of the call's arguments may return
GlobalTopK ==
  {[i \in 1..Len(q) |-> VectorResult(q[i])] :
     q \in TopKSeqs(GlobalRows(rows, h_call.doc_types), h_call.top_k)}

\* C9 (the claim as stated): if the workspace-scoped search raises, the
\* call does not raise and returns the global top_k of the same query and
\* doc_type filter.
C9_RoomFailureFallsBack ==
  h_out.path = "room_failed" =>
    /\ h_out.status = "returned"
    /\ h_out.results \in GlobalTopK

\* the rows of the named workspace's own documents that pass the filter
OwnRows ==
  TypeFilter({r \in rows : r.room_id = h_call.room_id}, h_call.doc_types)

\* C10 (the claim as stated): the workspace results that enter fusion are
\* the top_k most similar chunks among the workspace's own documents,
\* however many global chunks are more similar to the query.
C10_RoomSearchIndependent ==
  FusedWithRoom =>
    LET found == {h_out.room_results[i].chunk_id : i \in 1..Len(h_out.room_results)}
    IN  /\ Len(h_out.room_results) = Min(h_call.top_k, Cardinality(OwnRows))
        /\ found \subseteq {r.chunk_id : r \in OwnRows}
        /\ \A r \in OwnRows :
             r.chunk_id \notin found =>
               \A i \in 1..Len(h_out.room_results) :
                 r.similarity_score <= h_out.room_results[i].similarity_score

(***************************************************************************)
(* Properties of the segmentation of one text (SpecSegment).               *)
(***************************************************************************)
ParentsOf(chunks) == {i \in 1..Len(chunks) : chunks[i].chunk_type = "parent"}

ChildrenIn(chunks) == {i \in 1..Len(chunks) : chunks[i].chunk_type = "child"}

\* the children, in chunks, linked to the parent at place p
ChildrenOfParent(chunks, p) ==
  {c \in ChildrenIn(chunks) : chunks[c].parent_id = chunks[p].parent_id}

\* C11: in the result of chunk_markdown followed by
\* create_vector_ready_chunks, the parent_id values of the parents are
\* pairwise distinct, each parent's parent_id is its own chunk_id, and the
\* parent_id of every child is the parent_id of exactly one parent, a parent
\* of the same document.
C11_ChildResolvesToOneParent ==
  s_stage = "chunked" =>
    /\ \A p, q \in ParentsOf(s_chunks) :
         p # q => s_chunks[p].parent_id # s_chunks[q].parent_id
    /\ \A p \in ParentsOf(s_chunks) : s_chunks[p].parent_id = s_chunks[p].chunk_id
    /\ \A c \in ChildrenIn(s_chunks) :
         /\ Cardinality({p \in ParentsOf(s_chunks) :
                           s_chunks[p].parent_id = s_chunks[c].parent_id}) = 1
         /\ \A p \in ParentsOf(s_chunks) :
              s_chunks[p].parent_id = s_chunks[c].parent_id =>
                s_chunks[p].source_file = s_chunks[c].source_file

\* a segmented text of two sections, the first standalone, the second with
\* two children
C11_Witness ==
  /\ s_stage = "chunked"
  /\ s_text = <<"short", "clause", "long", "short">>
  /\ Cardinality(ParentsOf(s_chunks)) = 2
  /\ Cardinality(ChildrenIn(s_chunks)) = 2
  /\ \A c \in ChildrenIn(s_chunks) : s_chunks[c].parent_id = s_chunks[2].parent_id

\* C13: for every parent chunk exactly one granularity is the embedding
\* target: a parent longer than 500 characters is no target and has at
\* least one child, every child of it being a target; a parent of 500
\* characters or less is the target itself and has no child.
C13_OneEmbeddingGranularity ==
  s_stage = "chunked" =>
    /\ \A p \in ParentsOf(s_chunks) :
         IF s_chunks[p].content_length > 500
           THEN /\ ~s_chunks[p].is_for_embedding
                /\ ChildrenOfParent(s_chunks, p) # {}
                /\ \A c \in ChildrenOfParent(s_chunks, p) :
                     s_chunks[c].is_for_embedding
           ELSE /\ s_chunks[p].is_for_embedding
                /\ ChildrenOfParent(s_chunks, p) = {}
    /\ \A c \in ChildrenIn(s_chunks) :
         \E p \in ParentsOf(s_chunks) : c \in ChildrenOfParent(s_chunks, p)

\* a section of exactly 500 characters kept whole next to a section of 541
\* characters that was split
C13_Witness ==
  /\ s_stage = "chunked"
  /\ Len(s_chunks) >= 3
  /\ s_chunks[1].content_length = 500
  /\ s_chunks[1].is_for_embedding
  /\ s_chunks[2].content_length = 541
  /\ ~s_chunks[2].is_for_embedding
  /\ ChildrenOfParent(s_chunks, 2) # {}

\* the text holds no header line and no clause-numbering line, and at least
\* one line that is not blank
PlainText(lines) ==
  /\ Range(lines) \subseteq {"short", "long", "blank"}
  /\ Range(lines) # {"blank"}
  /\ lines # <<>>

\* the paragraphs of the text longer than 50 characters, among the first 10,
\* each as the sequence of its lines
LongParagraphs(lines) ==
  LET paragraphs == Paragraphs(lines)
      firsts == SubSeq(paragraphs, 1, Min(10, Len(paragraphs)))
  IN  SelectSeq(firsts, LAMBDA para : ParagraphLen(lines, para) > 50)

\* C19 (the claim as stated): a text without any header or clause-numbering
\* line is split on blank lines: one standalone parent per paragraph longer
\* than 50 characters, at most 10, each holding the lines of its paragraph.
C19_ParagraphFallback ==
  PlainText(s_text) =>
    /\ s_stage \in {"split", "manual"} =>
         /\ Len(s_sections) = Len(LongParagraphs(s_text))
         /\ Len(s_sections) <= 10
         /\ \A k \in 1..Len(s_sections) :
              s_sections[k].content =
                [x \in 1..(LongParagraphs(s_text)[k][2]
                             - LongParagraphs(s_text)[k][1] + 1) |->
                   LongParagraphs(s_text)[k][1] + x - 1]
    /\ s_stage = "chunked" =>
         Len(s_result.parent_chunks) = Len(LongParagraphs(s_text))

(***************************************************************************)
(* Properties of repeated segmentation (SpecResegment).                    *)
(***************************************************************************)
\* what a segmentation yields: per parent and per child its text, its
\* length, its headers and its identifiers
Segmentation(result) ==
  [parents |->
     [p \in 1..Len(result.parent_chunks) |->
        [text |-> result.parent_chunks[p].page_content,
         length |-> result.parent_chunks[p].content_length,
         header_1 |-> result.parent_chunks[p].header_1,
         header_2 |-> result.parent_chunks[p].header_2,
         parent_id |-> result.parent_chunks[p].parent_id]],
   children |->
     [c \in 1..Len(result.child_chunks) |->
        [text |-> result.child_chunks[c].page_content,
         length |-> result.child_chunks[c].content_length,
         header_1 |-> result.child_chunks[c].header_1,
         header_2 |-> result.child_chunks[c].header_2,
         parent_id |-> result.child_chunks[c].parent_id,
         child_id |-> result.child_chunks[c].child_id]]]

SameSettings(a, b) ==
  a.chunk_size = b.chunk_size /\ a.chunk_overlap = b.chunk_overlap

Embedded == e_stage \in {"embedded", "stored", "saved", "failed"}

\* the places of the embedding targets, and of those with a text to embed
TargetPlaces == {i \in 1..Len(e_docs) : e_docs[i].is_for_embedding}

TextPlaces == {i \in TargetPlaces : e_docs[i].content # <<"ws">>}

C15_OrderPreserving ==
  Embedded =>
    /\ ~e_out.raised
    /\ Len(e_out.docs) = Len(e_docs)
    /\ \A i \in 1..Len(e_docs) :
         /\ e_out.docs[i].chunk_id = e_docs[i].chunk_id
         /\ e_out.docs[i].content = e_docs[i].content
    /\ (e_out.called /\ ~e_svc.raised) =>
         \A i \in TextPlaces :
           e_out.docs[i].embedding = Cardinality({j \in TextPlaces : j <= i})
    /\ \A i \in TargetPlaces \ TextPlaces :
         "embedding" \in DOMAIN e_out.docs[i] =>
           e_out.docs[i].embedding = NullVector

\* a blank child, then a child and a standalone parent that received the
\* first and the second vector
C15_Witness ==
  /\ e_stage = "embedded"
  /\ Len(e_docs) = 3
  /\ e_docs[1].content = <<"ws">>
  /\ e_out.called
  /\ e_out.docs[1].embedding = NullVector
  /\ e_out.docs[2].embedding = 1
  /\ e_out.docs[3].embedding = 2

\* C16 (the claim as stated): only the texts of the chunks flagged
\* is_for_embedding are sent to the embedding service, and on every return
\* path a chunk that is no target comes back with embedding null,
\* embedding_success false and a reason recorded in embedding_metadata.
C16_NonTargetsPassThrough ==
  Embedded =>
    /\ Range(e_out.sent) \subseteq {e_docs[i].content : i \in TargetPlaces}
    /\ \A i \in (1..Len(e_docs)) \ TargetPlaces :
         /\ e_out.docs[i].embedding = NullVector
         /\ e_out.docs[i].embedding_success = FALSE
         /\ "embedding_metadata" \in DOMAIN e_out.docs[i]
         /\ "reason" \in DOMAIN e_out.docs[i].embedding_metadata

\* C17: when the batch embedding call raises, embed_chunked_documents does
\* not raise: it returns every input chunk, in order, with embedding null,
\* embedding_success false and an embedding_error, and the flow goes on to
\* persist them: one row without vector per chunk of non-blank content.
C17_EmbeddingFailureNotFatal ==
  (Embedded /\ e_out.called /\ e_svc.raised) =>
    /\ ~e_out.raised
    /\ Len(e_out.docs) = Len(e_docs)
    /\ \A i \in 1..Len(e_docs) :
         /\ e_out.docs[i].chunk_id = e_docs[i].chunk_id
         /\ e_out.docs[i].embedding = NullVector
         /\ e_out.docs[i].embedding_success = FALSE
         /\ "embedding_error" \in DOMAIN e_out.docs[i]
    /\ e_stage # "failed"
    /\ e_stage \in {"stored", "saved"} =>
         /\ Len(e_rows) =
              Cardinality({i \in 1..Len(e_docs) : e_docs[i].content # <<"ws">>})
         /\ \A k \in 1..Len(e_rows) :
              /\ e_rows[k].embedding = NullVector
              /\ \E i \in 1..Len(e_docs) : e_rows[k].child_id = e_docs[i].child_id

\* the batch call raised for a large parent and its two children, and the
\* three chunks were persisted without vector
C17_Witness ==
  /\ e_stage = "stored"
  /\ e_svc.raised
  /\ e_out.called
  /\ Len(e_docs) = 3
  /\ ~e_docs[1].is_for_embedding
  /\ Len(e_rows) = 3
  /\ \A k \in 1..3 : e_rows[k].embedding = NullVector

(***************************************************************************)
(* Properties of the chunk store (SpecIngest).                             *)
(***************************************************************************)
\* C12 (the claim as stated): no two parent chunks of different documents
\* share a parent_id, and the parent looked up for a child hit is a parent
\* of the child's own document.
C12_ParentIdsUniqueInStore ==
  /\ \A p, q \in chunk_store :
       (p.chunk_type = "parent" /\ q.chunk_type = "parent"
          /\ p.document_id # q.document_id) => p.parent_id # q.parent_id
  /\ parent_lookup.found # <<>> =>
       parent_lookup.found[1].document_id = parent_lookup.hit[1].document_id

(***************************************************************************)
(* Properties of the report (Spec).                                        *)
(***************************************************************************)
\* the five fields of a verdict
VerdictKeys ==
  {"johang_wichi", "risk_yuhyeong", "pandan_geungeo", "uigyeon",
   "gwallyeon_beopryeong"}

\* C20 (the claim as stated): every entry of the report's violations array
\* carries the five verdict fields, whether it is a parsed model output or
\* the fallback.
C20_VerdictsCarryFiveFields ==
  pc \in {"REPORTING", "DONE"} =>
    \A i \in 1..Len(final_analysis.violations) :
      VerdictKeys \subseteq DOMAIN final_analysis.violations[i]

(***************************************************************************)
(* Properties of the order and the tags of the hybrid results (SpecHybrid).*)
(***************************************************************************)
\* C21 (the claim as stated): of two entries of the fused list with equal
\* weighted scores, the one with the higher unweighted similarity is ranked
\* first, also when one is a global and the other a workspace result.
C21_TiesBreakOnSimilarity ==
  h_out.path = "fused" =>
    \A i, j \in 1..Len(h_out.results) :
      (i < j /\ h_out.results[i].weighted_score = h_out.results[j].weighted_score)
        => h_out.results[i].similarity_score >= h_out.results[j].similarity_score

\* C30 (the claim as stated): every result the call returns carries a
\* source_type of system or room and a weighted_score equal to its
\* similarity times the weight of its corpus, on every return path, the
\* fallback after a search failure included.
C30_ResultsCarryProvenance ==
  h_out.status = "returned" =>
    \A i \in 1..Len(h_out.results) :
      LET e == h_out.results[i]
      IN  /\ {"source_type", "weighted_score"} \subseteq DOMAIN e
          /\ e.source_type \in {"system", "room"}
          /\ e.weighted_score =
               e.similarity_score
                 * (IF e.source_type = "system" THEN h_call.system_weight
                                                ELSE h_call.room_weight)

(***************************************************************************)
(* Properties of the ordinals stage 1 assigns (SpecParse, Spec).           *)
(***************************************************************************)
\* the reply decodes to an object whose violations value is an array of
\* objects
CandidateArray ==
  /\ JsonLoads(ExtractJson(p_text)) = "object"
  /\ p_result.vtype = "list"
  /\ \A i \in 1..Len(p_result.violations) : IsDict(p_result.violations[i])

\* the locator holds the clause pattern
Resolvable(violation) ==
  /\ "clause_number" \in DOMAIN violation
  /\ violation.clause_number # NullLocator
  /\ ClauseMatches(violation.clause_number) # {}

\* C22 (the claim as stated): stage 1 keeps every candidate of the array
\* and gives it a chunk_index: N-1 when its locator holds the clause pattern
\* with number N, 0 when no clause number can be extracted from it.
C22_EveryCandidateGetsOrdinal ==
  (p_stage = "chain1" /\ CandidateArray) =>
    /\ Len(p_cands) = Len(p_result.violations)
    /\ \A i \in 1..Len(p_cands) :
         LET violation == p_result.violations[i]
         IN  /\ "chunk_index" \in DOMAIN p_cands[i]
             /\ Resolvable(violation) =>
                  \E m \in ClauseMatches(violation.clause_number) :
                    p_cands[i].chunk_index =
                      IntOf(violation.clause_number, m[1] + 1, m[2] - 1) - 1
             /\ ~Resolvable(violation) => p_cands[i].chunk_index = 0

\* C28 (the claim as stated): every chunk_index stage 1 assigns lies
\* between 0 and the number of parent chunks of the contract minus one.
C28_OrdinalWithinContract ==
  pc \in {"EVIDENCE_GATHERING", "DETAILING", "REPORTING", "DONE"} =>
    \A i \in 1..Len(violation_candidates) :
      /\ violation_candidates[i].chunk_index >= 0
      /\ violation_candidates[i].chunk_index <= Len(parent_chunks) - 1

(***************************************************************************)
(* Properties of the order of stage 3 and of the end of the run (Spec).    *)
(***************************************************************************)
\* the rounds of stage 3 that recorded an entry, in round order
RecordedRounds ==
  SelectSeq([i \in 1..Len(detail_log) |-> i],
            LAMBDA i : detail_log[i] # "llm_error")

\* at most one stage-3 call is outstanding, and the entries recorded so far
\* are those of the rounds that recorded one, in candidate order
OneAtATime ==
  /\ llm3_calls - Len(detail_log) \in {0, 1}
  /\ llm3_calls <= Len(violations_with_laws)
  /\ Len(final_violations) = Len(RecordedRounds)
  /\ \A k \in 1..Len(RecordedRounds) :
       detail_log[RecordedRounds[k]] = "error" =>
         final_violations[k] = FallbackVerdict(violations_with_laws[RecordedRounds[k]])
  /\ pc \in {"REPORTING", "DONE"} /\ violations_with_laws # <<>> =>
       final_analysis.violations = final_violations

\* C23 (the claim as stated): stage 3 handles the candidates one at a time
\* in candidate order: the call of candidate i+1 is issued only after the
\* verdict or the fallback of candidate i has been recorded, two calls are
\* never outstanding, and the verdicts are in candidate order.
C23_CallAfterVerdictRecorded ==
  /\ OneAtATime
  /\ \A i \in 1..Len(detail_log) : i < llm3_calls => detail_log[i] # "llm_error"

\* The sequencing of C23 alone: the call of candidate i+1 is issued only
\* after the round of candidate i has ended, with a verdict or a fallback
\* recorded or, when its call raised, with nothing recorded; two calls are
\* never outstanding and the recorded verdicts are in candidate order.
C23_OneCallAtATime ==
  /\ OneAtATime
  /\ \A i \in 1..Len(detail_log) :
       detail_log[i] \in {"llm_error", "error", "object", "value"}

\* the second candidate's call is outstanding after the first candidate's
\* reply was no JSON and its fallback was recorded
C23_Witness ==
  /\ pc = "DETAILING"
  /\ Len(violations_with_laws) = 2
  /\ llm3_calls = 2
  /\ detail_log = <<"error">>
  /\ Len(final_violations) = 1

\* C29 (the claim as stated): the run returns True only if its report was
\* written.
C29_TrueOnlyIfReportWritten ==
  returned = "True" => saved_report # <<>>

(***************************************************************************)
(* Properties of soft-deleted documents under search (SpecDelete).         *)
(***************************************************************************)
\* C26 (the claim as stated): while a document is soft-deleted, no vector
\* search returns a chunk of it.
C26_DeletedNotRetrievable ==
  h_out.status = "returned" =>
    \A i \in 1..Len(h_out.results) : h_out.results[i].chunk_id \notin deleted

(***************************************************************************)
(* Properties of the related clauses of a section (SpecReview).            *)
(***************************************************************************)
\* the numbers of the related clauses, in the order returned
RelatedNums == [k \in 1..Len(r_out.related_sections) |->
                  r_out.related_sections[k].clause_num]

\* the sections of the contract other than the one under review
OtherSections == (1..Len(r_sections)) \ {r_call.current_section_index}

\* C24 (the claim as stated): with a document id, the related clauses are
\* the RelatedLimit most similar parent chunks of the same document among
\* all its parent chunks other than the one under review, whatever their
\* size: never the section itself, never a chunk of another document.
C24_MostSimilarOtherParents ==
  r_out.path = "similar" =>
    /\ \A k \in 1..Len(r_out.related_sections) :
         /\ r_out.related_sections[k].document_id = r_call.document_id
         /\ RelatedNums[k] \in OtherSections
    /\ \A a, b \in 1..Len(RelatedNums) : a # b => RelatedNums[a] # RelatedNums[b]
    /\ Len(RelatedNums) = Min(RelatedLimit, Cardinality(OtherSections))
    /\ \A p \in OtherSections \ Range(RelatedNums) :
         \A q \in Range(RelatedNums) :
           r_sections[p].similarity_score <= r_sections[q].similarity_score

\* C25: when the similarity search raises, the call does not fail and the
\* related clauses are the sections at most WindowSize places before and
\* WindowSize places after the section under review, within the section
\* list, without the section itself, in document order.
C25_FallbackWindow ==
  (r_out.path # "idle" /\ r_call.document_id # NoDocument) =>
    /\ ~r_out.raised
    /\ r_out.path = "fallback" =>
         /\ Range(RelatedNums) =
              {p \in OtherSections :
                 /\ p >= r_call.current_section_index - WindowSize
                 /\ p <= r_call.current_section_index + WindowSize}
         /\ \A a, b \in 1..Len(RelatedNums) : a < b => RelatedNums[a] < RelatedNums[b]

\* the search raised for the first of four sections: the second and the
\* third are related, the fourth is out of the window
C25_Witness ==
  /\ r_out.path = "fallback"
  /\ Len(r_sections) = 4
  /\ r_call.current_section_index = 1
  /\ RelatedNums = <<2, 3>>

(***************************************************************************)
(* Properties of the version labels of a room (SpecVersion).               *)
(***************************************************************************)
\* C27 (the claim as stated): no two contracts of the room that are not
\* soft-deleted carry the same version label.
C27_VersionLabelsUnique ==
  \A i, j \in 1..Len(v_docs) :
    (i # j /\ ~v_docs[i].deleted /\ ~v_docs[j].deleted) =>
      v_docs[i].version # v_docs[j].version

====
